---- MODULE Spec2Model ----
(***************************************************************************)
(* BEHAVE (MRI-Lab Graz): conversion of spreadsheet survey data to a BIDS  *)
(* tree.  Text is modelled as sequences of one-character strings so that   *)
(* the string operations of the source (strip, replace, regular            *)
(* expressions, glob patterns) are computed and not assumed.               *)
(***************************************************************************)
EXTENDS Integers, Sequences, FiniteSets, TLC

VARIABLES
    item_name,          \* normalize_item_name: the argument
    normalized,         \* normalize_item_name: the returned value
    id_value,           \* participant id cell handed to the id normalizers
    participant_id,     \* validators.validate_subject_id(id_value)
    legacy_id,          \* behave.py / participants.py normalize_id(id_value)
    df_main,            \* task spreadsheet, sheet 1 (item rows)
    df_meta,            \* task spreadsheet, sheets 2 and 3 (metadata rows)
    anonymize,          \* the anonymize argument of the task definition parser
    main_json,          \* BIDSConverter._process_main_sheet(df_main)
    sidecar,            \* document written by BIDSConverter.convert_excel_to_json
    legacy_sidecar,     \* document written by behave.convert_excel_to_json_updated
    variant,            \* "modular" (bids_converter.py), "legacy" (behave.py) or
                        \* "main" (main.py with read_session_data.py)
    task_name,          \* the task_name argument of the session extractor
    session_files,      \* the session spreadsheets handed to the extractor
    task_files,         \* the task spreadsheets of a run of main
    fs,                 \* output tree: path -> content
    removed,            \* the sidecars the orphan cleanup removed (and logged)
    raised,             \* the errors that left a call
    pc,                 \* position of the run
    df_demo,            \* the demographics sheet
    df_variables,       \* the variable dictionary (sheet 1 of the variables file)
    df_description      \* the key/value rows of sheet 2 of the variables file

vars == <<item_name, normalized, id_value, participant_id, legacy_id,
          df_main, df_meta, anonymize, main_json, sidecar, legacy_sidecar,
          variant, task_name, session_files, task_files, fs, removed, raised, pc,
          df_demo, df_variables, df_description>>

nameVars == <<item_name, normalized>>
idVars == <<id_value, participant_id, legacy_id>>
taskVars == <<df_main, df_meta, anonymize, main_json, sidecar, legacy_sidecar>>
runVars == <<variant, task_name, session_files, task_files, fs, removed, raised, pc>>
demoVars == <<df_demo, df_variables, df_description>>

\* Python values: text (a sequence of characters), an integer, a float with a
\* fractional part (n + 0.5), a float without one (n.0), pandas' missing cell,
\* None; and the mark of a result that has not been computed yet.
Str(s) == [str |-> s]
Num(n) == [num |-> n]
Frac(n) == [frac |-> n]
Float(n) == [float |-> n]
NaN == [nan |-> TRUE]
None == [none |-> TRUE]
Unset == [unset |-> TRUE]

IsStr(v) == DOMAIN v = {"str"}
IsNum(v) == DOMAIN v = {"num"}
IsFrac(v) == DOMAIN v = {"frac"}
IsFloat(v) == DOMAIN v = {"float"}
\* pd.isna / pd.notna on a scalar
isna(v) == v = NaN \/ v = None
notna(v) == ~isna(v)

-----------------------------------------------------------------------------
(* Characters and Python's string methods *)

LowerLetters == <<"a","b","c","d","e","f","g","h","i","j","k","l","m",
                  "n","o","p","q","r","s","t","u","v","w","x","y","z">>
UpperLetters == <<"A","B","C","D","E","F","G","H","I","J","K","L","M",
                  "N","O","P","Q","R","S","T","U","V","W","X","Y","Z">>
DigitChars == <<"0","1","2","3","4","5","6","7","8","9">>

Range(s) == {s[i] : i \in DOMAIN s}

Letters == Range(LowerLetters) \cup Range(UpperLetters)
Digits == Range(DigitChars)
IsLetter(c) == c \in Letters
IsDigit(c) == c \in Digits
\* \s of Python's re on the characters the model uses; also what strip() removes
IsSpace(c) == c \in {" ", "\t", "\n", "\r"}

UpperChar(c) ==
    IF \E i \in DOMAIN LowerLetters : LowerLetters[i] = c
    THEN UpperLetters[CHOOSE i \in DOMAIN LowerLetters : LowerLetters[i] = c]
    ELSE c
LowerChar(c) ==
    IF \E i \in DOMAIN UpperLetters : UpperLetters[i] = c
    THEN LowerLetters[CHOOSE i \in DOMAIN UpperLetters : UpperLetters[i] = c]
    ELSE c

\* str.upper(), str.lower()
Upper(s) == [i \in DOMAIN s |-> UpperChar(s[i])]
Lower(s) == [i \in DOMAIN s |-> LowerChar(s[i])]

\* str.startswith, str.endswith, the `in` operator on strings
StartsWith(s, p) == Len(p) <= Len(s) /\ SubSeq(s, 1, Len(p)) = p
EndsWith(s, p) == Len(p) <= Len(s) /\ SubSeq(s, Len(s) - Len(p) + 1, Len(s)) = p
Contains(s, p) == \E i \in 1..(Len(s) - Len(p) + 1) : SubSeq(s, i, i + Len(p) - 1) = p

RECURSIVE LStrip(_)
LStrip(s) == IF s # <<>> /\ IsSpace(Head(s)) THEN LStrip(Tail(s)) ELSE s
RECURSIVE RStrip(_)
RStrip(s) ==
    IF s # <<>> /\ IsSpace(s[Len(s)]) THEN RStrip(SubSeq(s, 1, Len(s) - 1)) ELSE s
\* str.strip()
Strip(s) == RStrip(LStrip(s))

\* str.replace(old, ""): every non-overlapping occurrence, left to right
RECURSIVE Remove(_, _)
Remove(s, old) ==
    IF s = <<>> THEN <<>>
    ELSE IF StartsWith(s, old) THEN Remove(SubSeq(s, Len(old) + 1, Len(s)), old)
    ELSE <<Head(s)>> \o Remove(Tail(s), old)

\* str(n) for a non-negative integer
RECURSIVE Decimal(_)
Decimal(n) ==
    IF n < 10 THEN <<DigitChars[n + 1]>>
    ELSE Decimal(n \div 10) \o <<DigitChars[(n % 10) + 1]>>

\* str.zfill(width) on a string without sign
RECURSIVE ZFill(_, _)
ZFill(s, width) == IF Len(s) >= width THEN s ELSE ZFill(<<"0">> \o s, width)

\* All strings over an alphabet, up to a length
RECURSIVE StringsOfLen(_, _)
StringsOfLen(alphabet, n) ==
    IF n = 0 THEN {<<>>}
    ELSE {<<c>> \o s : c \in alphabet, s \in StringsOfLen(alphabet, n - 1)}
StringsUpTo(alphabet, n) == UNION {StringsOfLen(alphabet, k) : k \in 0..n}

-----------------------------------------------------------------------------
(* Text constants *)

T_nan == <<"n","a","n">>
T_None == <<"N","o","n","e">>
T_sub == <<"s","u","b","-">>
T_sub_unknown == T_sub \o <<"u","n","k","n","o","w","n">>

\* str(v)
PyStr(v) ==
    IF IsStr(v) THEN v.str
    ELSE IF IsNum(v) THEN (IF v.num < 0 THEN <<"-">> \o Decimal(-v.num) ELSE Decimal(v.num))
    ELSE IF IsFrac(v) THEN Decimal(v.frac) \o <<".", "5">>
    ELSE IF IsFloat(v) THEN Decimal(v.float) \o <<".", "0">>
    ELSE IF v = NaN THEN T_nan
    ELSE T_None

\* re.match(r'^\d{least,}$', s): `$` (no MULTILINE) matches at the end of s and
\* also just before a line break that ends s
MatchesDigits(s, least) ==
    \E k \in 1..Len(s) :
        /\ k >= least
        /\ \A n \in 1..k : IsDigit(s[n])
        /\ \/ k = Len(s)
           \/ k = Len(s) - 1 /\ s[Len(s)] = "\n"

-----------------------------------------------------------------------------
(* Name Normalizer: excel_handler.normalize_item_name *)

MaxLabelLen == 4

\* one lower-case and one upper-case letter, a digit, a hyphen, an underscore,
\* a line break (whitespace) and a character of no class
LabelAlphabet == {"a", "B", "1", "-", "_", "\n", "."}

IsSeparator(c) == IsSpace(c) \/ c \in {"-", "_"}

\* re.match(r'([A-Za-z]+)[\s\-_]?(\d+)$', s): the pairs <<group 1, group 2>> of
\* the ways the pattern matches s from its first character.  t[1] is the
\* length of group 1, t[2] - 1 the length of the separator, and t[3] = 1 when
\* `$` matches before a line break that ends s.
ItemNameMatches(s) ==
    {<<SubSeq(s, 1, t[1]), SubSeq(s, t[1] + t[2], Len(s) - t[3])>> :
        t \in {t \in (1..Len(s)) \X {1, 2} \X {0, 1} :
            /\ \A n \in 1..t[1] : IsLetter(s[n])
            /\ t[2] = 2 => t[1] + 1 <= Len(s) /\ IsSeparator(s[t[1] + 1])
            /\ t[1] + t[2] <= Len(s) - t[3]
            /\ \A n \in (t[1] + t[2])..(Len(s) - t[3]) : IsDigit(s[n])
            /\ t[3] = 1 => s[Len(s)] = "\n"}}

\* the same function with re.search in the place of re.match: the leftmost
\* place of the label from which the pattern matches
normalize_item_name_search(item) ==
    LET s == PyStr(item)
        starts == {i \in 1..Len(s) : ItemNameMatches(SubSeq(s, i, Len(s))) # {}}
    IN  IF starts = {} THEN s
        ELSE LET i == CHOOSE i \in starts : \A j \in starts : i <= j
                 m == CHOOSE m \in ItemNameMatches(SubSeq(s, i, Len(s))) : TRUE
             IN  Upper(m[1]) \o m[2]

\* the same function with swapcase() in the place of upper()
normalize_item_name_swapcase(item) ==
    LET s == PyStr(item)
    IN  IF ItemNameMatches(s) # {}
        THEN LET m == CHOOSE m \in ItemNameMatches(s) : TRUE
             IN  [n \in 1..Len(m[1]) |->
                     IF UpperChar(m[1][n]) = m[1][n] THEN LowerChar(m[1][n])
                     ELSE UpperChar(m[1][n])] \o m[2]
        ELSE s

normalize_item_name(item) ==
    LET s == PyStr(item)
    IN  IF ItemNameMatches(s) # {}
        THEN LET m == CHOOSE m \in ItemNameMatches(s) : TRUE
             IN  Upper(m[1]) \o m[2]
        ELSE s

\* labels: text, and the numbers and empty cells pandas may hand over as headers
Labels ==
    {Str(s) : s \in StringsUpTo(LabelAlphabet, MaxLabelLen)} \cup {Num(0), Num(12), NaN}

NormalizeItemName ==
    /\ normalized = Unset
    /\ normalized' = Str(normalize_item_name(item_name))
    /\ UNCHANGED item_name

-----------------------------------------------------------------------------
(* Participant id: validators.validate_subject_id and the normalize_id of   *)
(* behave.py and participants.py                                            *)

MaxIdLen == 3

IdAlphabet == {"0", "2", "4", "9", "x"}
IdPrefixes == {<<>>, T_sub, T_sub \o <<"-">>, T_sub \o T_sub, <<" ">>}
IdInts == {0, 7, 42, 123, 1234}

RECURSIVE DropHyphens(_)
DropHyphens(s) == IF s # <<>> /\ Head(s) = "-" THEN DropHyphens(Tail(s)) ELSE s

\* re.sub(r"^sub-+", "sub-", s)
CollapseSubPrefix(s) ==
    IF StartsWith(s, T_sub)
    THEN T_sub \o DropHyphens(SubSeq(s, Len(T_sub) + 1, Len(s)))
    ELSE s

\* validate_subject_id without the padding of numeric ids
validate_subject_id_unpadded(subject_id) ==
    IF isna(subject_id) THEN T_sub_unknown
    ELSE LET s == CollapseSubPrefix(Strip(PyStr(subject_id)))
         IN  IF ~StartsWith(s, T_sub) THEN T_sub \o s ELSE s

\* normalize_id that takes text of any number of digits
normalize_id_any_digits(id) ==
    IF IsStr(id)
    THEN IF StartsWith(id.str, T_sub) THEN id.str
         ELSE IF MatchesDigits(id.str, 1) THEN T_sub \o id.str
         ELSE T_sub_unknown
    ELSE IF IsNum(id) THEN T_sub \o ZFill(Decimal(id.num), 3)
    ELSE T_sub_unknown

validate_subject_id(subject_id) ==
    IF isna(subject_id) THEN T_sub_unknown
    ELSE LET s == CollapseSubPrefix(Strip(PyStr(subject_id)))
         IN  IF ~StartsWith(s, T_sub)
             THEN IF MatchesDigits(s, 1) THEN T_sub \o ZFill(s, 3) ELSE T_sub \o s
             ELSE s

normalize_id(id) ==
    IF IsStr(id)
    THEN IF StartsWith(id.str, T_sub) THEN id.str
         ELSE IF MatchesDigits(id.str, 3) THEN T_sub \o id.str
         ELSE T_sub_unknown
    ELSE IF IsNum(id) THEN T_sub \o ZFill(Decimal(id.num), 3)
    ELSE T_sub_unknown

IdValues ==
    {None, NaN} \cup {Num(n) : n \in IdInts}
    \cup {Str(p \o b) : p \in IdPrefixes, b \in StringsUpTo(IdAlphabet, MaxIdLen)}

\* BIDSConverter._prepare_participants_data: df['id'].apply(validate_subject_id)
ValidateSubjectId ==
    /\ participant_id = Unset
    /\ participant_id' = Str(validate_subject_id(id_value))
    /\ UNCHANGED <<id_value, legacy_id>>

\* behave.convert_demographics_to_participants: df['id'].apply(normalize_id)
NormalizeId ==
    /\ legacy_id = Unset
    /\ legacy_id' = Str(normalize_id(id_value))
    /\ UNCHANGED <<id_value, participant_id>>

-----------------------------------------------------------------------------
(* Name Normalizer: the claims *)

\* the form the claims describe: one or more ASCII letters, at most one
\* separator (whitespace, '-' or '_'), one or more digits, and nothing else
LettersSepDigitsSplits(s) ==
    {t \in (1..Len(s)) \X (1..Len(s)) :
        /\ \A n \in 1..t[1] : IsLetter(s[n])
        /\ \/ t[2] = t[1] + 1
           \/ t[2] = t[1] + 2 /\ (IsSpace(s[t[1] + 1]) \/ s[t[1] + 1] \in {"-", "_"})
        /\ t[2] <= Len(s)
        /\ \A n \in t[2]..Len(s) : IsDigit(s[n])}
LettersSepDigits(s) == LettersSepDigitsSplits(s) # {}
\* UPPERCASE(letters) immediately followed by the digits
Rewritten(s) ==
    LET t == CHOOSE t \in LettersSepDigitsSplits(s) : TRUE
    IN  Upper(SubSeq(s, 1, t[1])) \o SubSeq(s, t[2], Len(s))
\* the label matches <letters><optional separator><digits> at its end
EndsInPattern(s) == \E i \in 1..Len(s) : LettersSepDigits(SubSeq(s, i, Len(s)))
\* <UPPERCASE-LETTERS><DIGITS> with no separator
IsUpperDigits(r) ==
    \E i \in 1..(Len(r) - 1) :
        /\ \A n \in 1..i : r[n] \in Range(UpperLetters)
        /\ \A n \in (i + 1)..Len(r) : IsDigit(r[n])

\* C5: normalize_item_name returns UPPERCASE(letters) followed by the digits
\* for every label made of letters, at most one separator and digits, and
\* returns every other label unchanged (a non-string stringified).
C5_Claim ==
    normalized # Unset =>
        LET s == PyStr(item_name)
        IN  IF LettersSepDigits(s)
            THEN normalized = Str(Rewritten(s))
            ELSE normalized = Str(s)

\* C6 as stated: every label that matches the pattern at its end is rewritten
\* to <UPPERCASE-LETTERS><DIGITS>, also when other characters precede the tail.
C6_Original ==
    normalized # Unset =>
        (EndsInPattern(PyStr(item_name)) => IsUpperDigits(normalized.str))

\* C6 amended: a label that is <letters><optional separator><digits> from its
\* first character to its last is rewritten to <UPPERCASE-LETTERS><DIGITS>; a
\* label in which other characters precede such a tail is returned unchanged.
C6_Amended ==
    normalized # Unset =>
        LET s == PyStr(item_name)
        IN  /\ LettersSepDigits(s) =>
                normalized = Str(Rewritten(s)) /\ IsUpperDigits(normalized.str)
            /\ EndsInPattern(s) /\ ~LettersSepDigits(s) => normalized = Str(s)

\* a label made of a prefix, a separator and then letters and digits has been
\* normalized and came back unchanged
C6_Witness ==
    /\ normalized # Unset
    /\ LET s == PyStr(item_name)
       IN  /\ Len(s) >= 4
           /\ IsLetter(s[1])
           /\ s[2] \in {"-", "_", " "}
           /\ LettersSepDigits(SubSeq(s, 3, Len(s)))
           /\ normalized = Str(s)

-----------------------------------------------------------------------------
(* Participant id: the claims *)

T_42 == <<"4", "2">>
T_sub9 == T_sub \o <<"9">>

C7_WitnessInteger == id_value = Num(7) /\ participant_id = Str(T_sub \o <<"0", "0", "7">>)
C7_WitnessPrefixed == id_value = Str(T_sub9) /\ participant_id = Str(T_sub9)
C7_WitnessBlank == id_value = NaN /\ participant_id = Str(T_sub_unknown)

\* an id cell that holds text with nothing but whitespace in it is not
\* missing: it becomes the bare prefix
C7_WhitespaceText ==
    participant_id # Unset /\ IsStr(id_value) /\ Strip(id_value.str) = <<>>
        => participant_id = Str(T_sub)

\* what C8 says of an id value
C8_Expected(v) ==
    IF IsStr(v) /\ StartsWith(v.str, T_sub) THEN v.str
    ELSE IF IsStr(v) /\ Len(v.str) >= 3 /\ \A n \in DOMAIN v.str : IsDigit(v.str[n])
         THEN T_sub \o v.str
    ELSE IF IsNum(v) THEN T_sub \o ZFill(Decimal(v.num), 3)
    ELSE T_sub_unknown

C8_TextExpected(s) ==
    LET body == Strip(s) IN
    IF StartsWith(body, T_sub) THEN CollapseSubPrefix(body)
    ELSE IF body # <<>> /\ \A n \in DOMAIN body : IsDigit(body[n])
         THEN T_sub \o ZFill(body, 3)
    ELSE T_sub \o body

C8_WitnessTwoDigits ==
    /\ id_value = Str(T_42)
    /\ participant_id = Str(T_sub \o <<"0", "4", "2">>)
    /\ legacy_id = Str(T_sub_unknown)

-----------------------------------------------------------------------------
(* Task Definition Parser: BIDSConverter.convert_excel_to_json and           *)
(* behave.convert_excel_to_json_updated                                      *)

MaxLevels == 2
MaxRows == 2

T_itemname == <<"i","t","e","m","n","a","m","e">>
T_UnknownItem == <<"U","n","k","n","o","w","n"," ","I","t","e","m">>
T_Question == <<"Q","u","e","s","t","i","o","n"," ">>

\* a Python dict: a function from keys to values; d[k] = v
EmptyDict == <<>>
DictSet(d, k, v) == (k :> v) @@ d
\* an update that keeps the values the dict has
DictUpdateKeep(d, other) == d @@ other
\* dict.update(other)
DictUpdate(d, other) == other @@ d

\* the value of a text of digits
RECURSIVE DigitsValue(_)
DigitsValue(s) ==
    IF s = <<>> THEN 0
    ELSE 10 * DigitsValue(SubSeq(s, 1, Len(s) - 1))
         + (CHOOSE d \in 0..9 : DigitChars[d + 1] = s[Len(s)])

\* int(v): [ok |-> TRUE, val |-> n], or ok = FALSE where Python raises
\* ValueError or TypeError.  A float is truncated; text is stripped and parsed.
PyInt(v) ==
    IF IsNum(v) THEN [ok |-> TRUE, val |-> v.num]
    ELSE IF IsFrac(v) THEN [ok |-> TRUE, val |-> v.frac]
    ELSE IF IsStr(v) /\ Strip(v.str) # <<>> /\ \A n \in DOMAIN Strip(v.str) : IsDigit(Strip(v.str)[n])
         THEN [ok |-> TRUE, val |-> DigitsValue(Strip(v.str))]
    ELSE [ok |-> FALSE, val |-> 0]

\* the likert_scale cell as a level count: a failure of int() counts as 0
NumLevels(row) ==
    IF notna(row.likert_scale) /\ PyInt(row.likert_scale).ok
    THEN PyInt(row.likert_scale).val
    ELSE 0

\* the columns `levels`, `levels.1`, ... and `leveldescription`, ... of a row are
\* row.levels[1], row.levels[2], ...: column i is in the sheet when i < Len
HasLevelColumns(row, i) == i + 1 <= Len(row.levels) /\ i + 1 <= Len(row.leveldescription)

\* the levels dict after the iterations 0 .. n-1 of the loop of _add_likert_levels
RECURSIVE LikertLevels(_, _)
LikertLevels(row, n) ==
    IF n <= 0 THEN EmptyDict
    ELSE LET levels == LikertLevels(row, n - 1)
             i == n - 1
         IN  IF /\ HasLevelColumns(row, i)
                /\ notna(row.levels[i + 1])
                /\ notna(row.leveldescription[i + 1])
                /\ PyInt(row.levels[i + 1]).ok
             THEN DictSet(levels, PyStr(Num(PyInt(row.levels[i + 1]).val)),
                          Str(PyStr(row.leveldescription[i + 1])))
             ELSE levels

\* the pair of columns i holds a usable level: both cells present and filled, and
\* the level cell accepted by int()
LevelPairValid(row, i) ==
    /\ HasLevelColumns(row, i)
    /\ notna(row.levels[i + 1])
    /\ notna(row.leveldescription[i + 1])
    /\ PyInt(row.levels[i + 1]).ok

\* _add_likert_levels where one unusable pair abandons the levels of the item
_add_likert_levels_strict(entry, row) ==
    IF NumLevels(row) <= 0 THEN entry
    ELSE IF \A i \in 0..(NumLevels(row) - 1) : LevelPairValid(row, i)
         THEN DictSet(entry, "Levels", LikertLevels(row, NumLevels(row)))
    ELSE entry

_add_likert_levels(entry, row) ==
    IF NumLevels(row) <= 0 THEN entry
    ELSE IF LikertLevels(row, NumLevels(row)) # EmptyDict
         THEN DictSet(entry, "Levels", LikertLevels(row, NumLevels(row)))
    ELSE entry

\* _add_units without its guard on Levels
_add_units_always(entry, row) ==
    IF Len(row.leveldescription) >= 1 /\ notna(row.leveldescription[1])
    THEN DictSet(entry, "Units", Str(Strip(PyStr(row.leveldescription[1]))))
    ELSE entry

_add_units(entry, row) ==
    IF "Levels" \in DOMAIN entry THEN entry
    ELSE IF Len(row.leveldescription) >= 1 /\ notna(row.leveldescription[1])
         THEN DictSet(entry, "Units", Str(Strip(PyStr(row.leveldescription[1]))))
    ELSE entry

_create_item_entry(row, idx, anon) ==
    LET description == IF anon THEN Str(T_Question \o Decimal(idx + 1))
                       ELSE row.itemdescription
        entry == DictSet(EmptyDict, "Description", Str(PyStr(description)))
    IN  _add_units(_add_likert_levels(entry, row), row)

\* _get_item_key: the trimmed item name, or None for a row to skip
_get_item_key(row) ==
    IF isna(row.itemname) THEN None
    ELSE LET item_key == Strip(PyStr(row.itemname))
         IN  IF StartsWith(Lower(item_key), T_itemname) \/ item_key = T_UnknownItem
             THEN None
             ELSE Str(item_key)

\* `if not item_key: continue`: None and the empty text are both skipped
ItemSkipped(row) == _get_item_key(row) = None \/ _get_item_key(row) = Str(<<>>)

\* re.sub(r'[-_]', '', item_key)
CleanKey(item_key) == SelectSeq(item_key, LAMBDA c : c \notin {"-", "_"})

\* a store that keeps the entry a key already has
StoreItemFirstWins(json_data, clean_key, entry) == json_data @@ (clean_key :> entry)

\* the statement json_data[clean_key] = entry
StoreItem(json_data, clean_key, entry) == DictSet(json_data, clean_key, entry)

\* json_data after the rows 0 .. n-1 of the loop of _process_main_sheet
RECURSIVE MainSheetUpTo(_, _, _)
MainSheetUpTo(rows, n, anon) ==
    IF n = 0 THEN EmptyDict
    ELSE LET json_data == MainSheetUpTo(rows, n - 1, anon)
             row == rows[n]
         IN  IF ItemSkipped(row) THEN json_data
             ELSE StoreItem(json_data, CleanKey(_get_item_key(row).str),
                            _create_item_entry(row, n - 1, anon))

_process_main_sheet(rows, anon) == MainSheetUpTo(rows, Len(rows), anon)

\* metadata after the rows 1 .. n of one metadata sheet
RECURSIVE MetadataUpTo(_, _, _)
MetadataUpTo(metadata, rows, n) ==
    IF n = 0 THEN metadata
    ELSE LET m == MetadataUpTo(metadata, rows, n - 1)
             row == rows[n]
         IN  IF notna(row.key) /\ notna(row.description)
             THEN DictSet(m, PyStr(row.key), Str(PyStr(row.description)))
             ELSE m

\* the two sheets read in the other order
_process_metadata_sheets_reversed(df_task_desc, df_nonlikert) ==
    MetadataUpTo(MetadataUpTo(EmptyDict, df_nonlikert, Len(df_nonlikert)),
                 df_task_desc, Len(df_task_desc))

_process_metadata_sheets(df_task_desc, df_nonlikert) ==
    MetadataUpTo(MetadataUpTo(EmptyDict, df_task_desc, Len(df_task_desc)),
                 df_nonlikert, Len(df_nonlikert))

\* what a call leaves behind: the document it wrote, or the error it raised
Written(doc) == [written |-> doc]
Raised(error) == [error |-> error]
IsWritten(r) == DOMAIN r = {"written"}

\* convert_excel_to_json for a spreadsheet that load_and_validate_excel accepts;
\* validate_json_structure raises on an empty document, before the file is written
convert_excel_to_json(rows, meta, anon) ==
    LET json_data == DictUpdate(_process_main_sheet(rows, anon),
                                _process_metadata_sheets(meta[1], meta[2]))
    IN  IF json_data = EmptyDict THEN Raised("ValidationError") ELSE Written(json_data)

ConvertExcelToJson ==
    /\ sidecar = Unset
    /\ main_json' = _process_main_sheet(df_main, anonymize)
    /\ sidecar' = convert_excel_to_json(df_main, df_meta, anonymize)
    /\ UNCHANGED <<df_main, df_meta, anonymize, legacy_sidecar>>

-----------------------------------------------------------------------------
(* behave.convert_excel_to_json_updated: the legacy task definition parser   *)

\* the levels dict of the legacy loop: the description cell is stored as it is
RECURSIVE LegacyLikertLevels(_, _)
LegacyLikertLevels(row, n) ==
    IF n <= 0 THEN EmptyDict
    ELSE LET levels == LegacyLikertLevels(row, n - 1)
             i == n - 1
         IN  IF /\ HasLevelColumns(row, i)
                /\ notna(row.levels[i + 1])
                /\ notna(row.leveldescription[i + 1])
                /\ PyInt(row.levels[i + 1]).ok
             THEN DictSet(levels, PyStr(Num(PyInt(row.levels[i + 1]).val)),
                          row.leveldescription[i + 1])
             ELSE levels

\* the entry of one row: Levels when the level count is positive, else Units
LegacyItemEntry(row, idx, anon) ==
    LET description == IF anon THEN Str(T_Question \o Decimal(idx)) ELSE row.itemdescription
        entry == DictSet(EmptyDict, "Description", description)
    IN  IF NumLevels(row) > 0
        THEN IF LegacyLikertLevels(row, NumLevels(row)) # EmptyDict
             THEN DictSet(entry, "Levels", LegacyLikertLevels(row, NumLevels(row)))
             ELSE entry
        ELSE IF Len(row.leveldescription) >= 1 /\ notna(row.leveldescription[1])
             THEN DictSet(entry, "Units", Str(Strip(PyStr(row.leveldescription[1]))))
             ELSE entry

\* the key of a row: a row without a name is 'Unknown Item'
LegacyItemKey(row) ==
    IF notna(row.itemname) THEN Strip(row.itemname.str) ELSE T_UnknownItem

RECURSIVE LegacyMainUpTo(_, _, _)
LegacyMainUpTo(rows, n, anon) ==
    IF n = 0 THEN EmptyDict
    ELSE LET json_data == LegacyMainUpTo(rows, n - 1, anon)
             row == rows[n]
         IN  IF StartsWith(Lower(LegacyItemKey(row)), T_itemname) THEN json_data
             ELSE StoreItem(json_data, CleanKey(LegacyItemKey(row)),
                            LegacyItemEntry(row, n - 1, anon))

\* json_data after the rows 1 .. n of one metadata sheet: key and value as they are
RECURSIVE LegacyMetadataUpTo(_, _, _)
LegacyMetadataUpTo(json_data, rows, n) ==
    IF n = 0 THEN json_data
    ELSE LET d == LegacyMetadataUpTo(json_data, rows, n - 1)
             row == rows[n]
         IN  IF notna(row.key) /\ notna(row.description)
             THEN DictSet(d, row.key.str, row.description)
             ELSE d

convert_excel_to_json_updated(rows, meta, anon) ==
    Written(LegacyMetadataUpTo(
                LegacyMetadataUpTo(LegacyMainUpTo(rows, Len(rows), anon), meta[1], Len(meta[1])),
                meta[2], Len(meta[2])))

ConvertExcelToJsonUpdated ==
    /\ legacy_sidecar = Unset
    /\ legacy_sidecar' = convert_excel_to_json_updated(df_main, df_meta, anonymize)
    /\ UNCHANGED <<df_main, df_meta, anonymize, main_json, sidecar>>

-----------------------------------------------------------------------------
(* Task spreadsheets *)

T_lo == <<"l","o">>
T_ms == <<"m","s"," ">>
T_q1 == <<"q","1">>
T_q2 == <<"q","2">>

ItemRow(name, description, likert, levels, leveldescription) ==
    [itemname |-> name, itemdescription |-> description, likert_scale |-> likert,
     levels |-> levels, leveldescription |-> leveldescription]

MetaRow(key, description) == [key |-> key, description |-> description]

\* cells of the likert_scale, levels* and leveldescription* columns
LikertCells == {NaN, Str(<<"x">>), Str(<<"2">>)} \cup {Num(n) : n \in (-1)..(MaxLevels + 1)}
LevelCells == {NaN, Str(<<"x">>), Frac(1)} \cup {Num(n) : n \in 1..MaxLevels}
DescriptionCells == {NaN, Str(T_lo), Str(T_ms)}

\* item names of a main sheet: names that collide after cleaning, names of header
\* rows, the placeholder name, a name of whitespace, a missing name
ItemNames ==
    {NaN,
     Str(<<"a","-","b">>), Str(<<"a","_","b"," ">>),
     Str(T_itemname), Str(<<"I","t","e","m","N","a","m","e","X">>),
     Str(T_UnknownItem), Str(<<" ">>)}

\* rows of a main sheet: a plain item and an item with a unit
SheetRows ==
    {ItemRow(name, Str(T_q1), NaN, <<NaN>>, <<NaN>>) : name \in ItemNames}
    \cup {ItemRow(name, Str(T_q2), Num(0), <<NaN>>, <<Str(T_ms)>>) : name \in ItemNames}

RECURSIVE SeqsOfLen(_, _)
SeqsOfLen(S, n) ==
    IF n = 0 THEN {<<>>}
    ELSE {Append(s, x) : s \in SeqsOfLen(S, n - 1), x \in S}

SeqsUpTo(S, n) == UNION {SeqsOfLen(S, k) : k \in 0..n}

\* the metadata sheets: empty, a key of its own, a key that is also an item key
SheetMetadata ==
    {<<<<>>, <<>>>>,
     <<<<MetaRow(Str(<<"k">>), Str(<<"v">>))>>, <<>>>>,
     <<<<>>, <<MetaRow(Str(<<"a","b">>), Str(<<"v">>))>>>>}

\* the rows of a metadata sheet of up to MaxMetaRows rows: a key with two
\* values, the key of an item, a key with a number as value, a row without a
\* key and a row without a value
MaxMetaRows == 2
MetaRows ==
    {MetaRow(Str(<<"k">>), Str(<<"v">>)),
     MetaRow(Str(<<"k">>), Str(<<"w">>)),
     MetaRow(Str(<<"a", "b">>), Num(5)),
     MetaRow(NaN, Str(<<"v">>)),
     MetaRow(Str(<<"j">>), NaN)}
MetaSheets == SeqsUpTo(MetaRows, MaxMetaRows)

-----------------------------------------------------------------------------
(* Session Extractor: BIDSConverter.create_bids_structure and                *)
(* behave.create_bids_structure_and_copy_data                                *)

T_id == <<"i", "d">>
T_ses == <<"s", "e", "s">>
T_subject_id == <<"s", "u", "b", "j", "e", "c", "t", "_", "i", "d">>
T_session == <<"s", "e", "s", "s", "i", "o", "n">>
T_example == <<"e", "x", "a", "m", "p", "l", "e">>
T_ses_ == <<"s", "e", "s", "-">>
T_beh == <<"b", "e", "h">>
T_task_ == <<"t", "a", "s", "k", "-">>
T_beh_tsv == <<"_", "b", "e", "h", ".", "t", "s", "v">>
T_beh_json == <<"_", "b", "e", "h", ".", "j", "s", "o", "n">>
T_01 == <<"0", "1">>

\* the output tree: a function from paths to contents; a path is the sequence
\* of its components under the output root
Dir == [dir |-> TRUE]
Tsv(columns, cells) == [columns |-> columns, cells |-> cells]
IsTsv(content) == DOMAIN content = {"columns", "cells"}

\* os.makedirs(path, exist_ok=True): the directory and every directory above it
makedirs(tree, path) ==
    [p \in {SubSeq(path, 1, n) : n \in 1..Len(path)} |-> Dir] @@ tree

\* a write that leaves a file that exists as it is
WriteFileKeep(tree, path, content) == tree @@ (path :> content)

\* open(path, 'w') and write: the file is created or replaced
WriteFile(tree, path, content) == (path :> content) @@ tree

\* the result of a call: the tree it leaves and the error that left it, if any
Returned(tree) == [fs |-> tree, error |-> "none"]
Failed(tree, error) == [fs |-> tree, error |-> error]

\* a session spreadsheet: its header row and its data rows, cell n of a row
\* under header n
Table(columns, rows) == [columns |-> columns, rows |-> rows]
\* pd.read_excel: a column of integers and empty cells is a column of floats
read_excel(columns, cells) ==
    Table(columns,
          [n \in 1..Len(cells) |->
              [j \in 1..Len(columns) |->
                  IF /\ IsNum(cells[n][j])
                     /\ \A m \in 1..Len(cells) : IsNum(cells[m][j]) \/ cells[m][j] = NaN
                     /\ \E m \in 1..Len(cells) : cells[m][j] = NaN
                  THEN Float(cells[n][j].num)
                  ELSE cells[n][j]]])
ColumnIndex(columns, name) == CHOOSE n \in 1..Len(columns) : columns[n] = name
HasColumn(columns, name) == \E n \in 1..Len(columns) : columns[n] = name

\* df.columns = [normalize_item_name(col) for col in df.columns]
NormalizeColumns(columns) ==
    [n \in 1..Len(columns) |-> normalize_item_name(Str(columns[n]))]

\* load_session_file: 'id' and 'ses' among the lower-cased raw headers
load_session_file_ok(columns) ==
    /\ \E n \in 1..Len(columns) : Lower(columns[n]) = T_id
    /\ \E n \in 1..Len(columns) : Lower(columns[n]) = T_ses

\* _prepare_session_data: the normalized headers with id and ses renamed, in
\* any letter case
PreparedColumns(columns) ==
    [n \in 1..Len(columns) |->
        LET col == normalize_item_name(Str(columns[n]))
        IN  IF Lower(col) = T_id THEN T_subject_id
            ELSE IF Lower(col) = T_ses THEN T_session
            ELSE col]

\* _extract_task_items: the normalized names of the items that are neither
\* missing nor examples
_extract_task_items(rows) ==
    {normalize_item_name(Str(PyStr(rows[n].itemname))) :
        n \in {m \in 1..Len(rows) :
                  /\ ~isna(rows[m].itemname)
                  /\ ~Contains(Lower(PyStr(rows[m].itemname)), T_example)}}

\* a selection by the task name alone
RelevantColumnsByName(columns, task, task_items) ==
    SelectSeq(columns, LAMBDA col : Contains(Upper(col), Upper(task)))

\* the columns create_bids_structure adds to subject_id and session
RelevantColumns(columns, task, task_items) ==
    SelectSeq(columns, LAMBDA col : Contains(Upper(col), Upper(task)) /\ col \in task_items)

\* validators.validate_data_consistency: df[col] is a table when several
\* headers are the same after normalization, and `if nan_count > 0` on the
\* counts of a table raises ValueError; this happens for the headers that
\* contain the task name
validate_data_consistency(columns, task) ==
    IF \E m, n \in 1..Len(columns) :
           m # n /\ columns[m] = columns[n] /\ Contains(Upper(columns[n]), Upper(task))
    THEN "ValueError"
    ELSE "none"

\* len(relevant_columns) <= 2
TooFewColumns(relevant_columns) == Len(relevant_columns) <= 2

\* validators.validate_session_id
validate_session_id(session_id) ==
    IF isna(session_id) THEN T_01
    ELSE LET s == Strip(PyStr(session_id))
         IN  IF s # <<>> /\ \A n \in 1..Len(s) : IsDigit(s[n]) THEN ZFill(s, 2) ELSE s

\* a file name that carries the task name as it is given
get_task_tsv_filename_as_given(subject_id, session, task) ==
    subject_id \o <<"_">> \o T_ses_ \o session \o <<"_">> \o T_task_ \o task \o T_beh_tsv

\* a session folder without the beh folder
get_subject_session_path_flat(subject_id, session) == <<subject_id, T_ses_ \o session>>

\* BIDSPaths.get_subject_session_path and get_task_tsv_filename
get_subject_session_path(subject_id, session) == <<subject_id, T_ses_ \o session, T_beh>>
get_task_tsv_filename(subject_id, session, task) ==
    subject_id \o <<"_">> \o T_ses_ \o session \o <<"_">> \o T_task_ \o Lower(task) \o T_beh_tsv

\* re.sub(pattern, ' ', value) for a pattern that is one class of characters
ReplaceChars(s, class) == [n \in 1..Len(s) |-> IF s[n] \in class THEN " " ELSE s[n]]

\* re.sub(r'\s+', ' ', value)
RECURSIVE CollapseWhitespace(_)
CollapseWhitespace(s) ==
    IF s = <<>> THEN <<>>
    ELSE IF IsSpace(Head(s))
         THEN <<" ">> \o CollapseWhitespace(LStrip(s))
    ELSE <<Head(s)>> \o CollapseWhitespace(Tail(s))

\* excel_handler.clean_text_data
clean_text_data(value) ==
    IF IsStr(value)
    THEN Str(Strip(CollapseWhitespace(ReplaceChars(value.str, {"\n", "\r", ",", "\t"}))))
    ELSE value

\* behave.clean_text
clean_text(value) ==
    IF IsStr(value) THEN Str(Strip(ReplaceChars(value.str, {"\n", "\r", ","}))) ELSE value

\* convert_floats, and the first loop of _clean_row_data: a float without a
\* fraction becomes an integer
convert_floats(val) == IF IsFloat(val) THEN Num(val.float) ELSE val

\* the cells of a row under the headers `keep`, in the order of `keep`
CellsOf(columns, row, keep) == [n \in 1..Len(keep) |-> row[ColumnIndex(columns, keep[n])]]

\* _process_subject_session for one row of df_filtered
_process_subject_session(tree, columns, row, keep, task) ==
    LET subject_id == validate_subject_id(row[ColumnIndex(columns, T_subject_id)])
        session == validate_session_id(row[ColumnIndex(columns, T_session)])
        output_dir == get_subject_session_path(subject_id, session)
        payload == SelectSeq(keep, LAMBDA col : col \notin {T_subject_id, T_session})
        cells == CellsOf(columns, row, payload)
    IN  WriteFile(makedirs(tree, output_dir),
                  Append(output_dir, get_task_tsv_filename(subject_id, session, task)),
                  Tsv(payload, [n \in 1..Len(cells) |-> clean_text_data(convert_floats(cells[n]))]))

\* the tree after the rows 1 .. n of the loop of create_bids_structure
RECURSIVE ProcessRowsUpTo(_, _, _, _, _)
ProcessRowsUpTo(tree, df, keep, task, n) ==
    IF n = 0 THEN tree
    ELSE _process_subject_session(ProcessRowsUpTo(tree, df, keep, task, n - 1),
                                  df.columns, df.rows[n], keep, task)

\* create_bids_structure for a task spreadsheet that load_and_validate_excel accepts
create_bids_structure(tree, session_file, task, task_rows) ==
    IF ~load_session_file_ok(session_file.columns)
    THEN Failed(tree, "ExcelValidationError")
    ELSE LET columns == PreparedColumns(session_file.columns)
             df == Table(columns, session_file.rows)
             keep == RelevantColumns(columns, task, _extract_task_items(task_rows))
         IN  IF ~HasColumn(columns, T_subject_id) \/ ~HasColumn(columns, T_session)
             THEN Failed(tree, "ValueError")
             ELSE IF validate_data_consistency(columns, task) # "none"
             THEN Failed(tree, validate_data_consistency(columns, task))
             ELSE IF TooFewColumns(<<T_subject_id, T_session>> \o keep)
             THEN Returned(tree)
             ELSE Returned(ProcessRowsUpTo(tree, df, keep, task, Len(df.rows)))

\* the position after the call on a session file has returned: the next
\* session file, then the next task spreadsheet, then the cleanup; in main.py
\* the cleanup is in the body of the loop over the task spreadsheets and
\* follows the last session file of every task; a call outside a run of main
\* is over
AfterSessionFile ==
    IF pc.file < Len(session_files) THEN [pc EXCEPT !.file = @ + 1]
    ELSE IF task_files = <<>> THEN [pc EXCEPT !.phase = "returned"]
    ELSE IF variant # "main" /\ pc.task < Len(task_files)
    THEN [pc EXCEPT !.phase = "parse", !.task = @ + 1, !.file = 1]
    ELSE [pc EXCEPT !.phase = "cleanup"]

\* BIDSConverter.create_bids_structure on the next session file
CreateBidsStructure ==
    /\ variant = "modular"
    /\ pc.phase = "extract"
    /\ LET r == create_bids_structure(fs, session_files[pc.file], task_name, df_main)
       IN  /\ fs' = r.fs
           /\ raised' = IF r.error = "none" THEN raised
                        ELSE raised \cup {[file |-> pc.file, error |-> r.error]}
           /\ pc' = IF r.error # "none" THEN [pc EXCEPT !.phase = "raised"] ELSE AfterSessionFile
    /\ UNCHANGED <<variant, task_name, session_files, task_files, removed>>

\* the task items of the legacy extractor: a missing name is the item 'nan'
LegacyTaskItems(rows) ==
    {normalize_item_name(rows[n].itemname) :
        n \in {m \in 1..Len(rows) : ~Contains(Lower(PyStr(rows[m].itemname)), T_example)}}

\* the columns the legacy extractor adds to subject_id and session: the name
\* of the task is looked for as it is written
LegacyRelevantColumns(columns, task, task_items) ==
    SelectSeq(SelectSeq(columns, LAMBDA col : Contains(col, task)),
              LAMBDA col : col \in task_items)

\* df_session[relevant_columns]: every column that carries one of the labels,
\* label by label, as positions in the sheet
RECURSIVE FilteredPositions(_, _)
FilteredPositions(columns, labels) ==
    IF labels = <<>> THEN <<>>
    ELSE SelectSeq([n \in 1..Len(columns) |-> n], LAMBDA n : columns[n] = Head(labels))
         \o FilteredPositions(columns, Tail(labels))

\* itertuples builds a namedtuple with rename=True: a header that is no
\* identifier, or that an earlier column carries, becomes _<position>
IsFieldName(col) ==
    /\ col # <<>>
    /\ IsLetter(col[1])
    /\ \A n \in 1..Len(col) : IsLetter(col[n]) \/ IsDigit(col[n]) \/ col[n] = "_"
FieldNames(labels) ==
    [n \in 1..Len(labels) |->
        IF IsFieldName(labels[n]) /\ \A m \in 1..(n - 1) : labels[m] # labels[n]
        THEN labels[n]
        ELSE <<"_">> \o Decimal(n - 1)]

\* the body of the loop over df_filtered.itertuples for one row; re.sub raises
\* TypeError on an id that is not text
LegacyProcessRow(tree, columns, row, keep, task) ==
    LET positions == FilteredPositions(columns, <<T_subject_id, T_session>> \o keep)
        fields == FieldNames([n \in 1..Len(positions) |-> columns[positions[n]]])
        payload == SelectSeq([n \in 1..Len(positions) |-> n],
                             LAMBDA n : fields[n] \notin {T_subject_id, T_session})
        id_cell == row[ColumnIndex(columns, T_subject_id)]
        collapsed == CollapseSubPrefix(id_cell.str)
        subject_id == IF StartsWith(collapsed, T_sub) THEN collapsed ELSE T_sub \o collapsed
        session == PyStr(row[ColumnIndex(columns, T_session)])
        session_folder == <<subject_id, T_ses_ \o session, T_beh>>
        output_file == subject_id \o <<"_">> \o T_ses_ \o session \o <<"_">>
                       \o T_task_ \o Lower(task) \o T_beh_tsv
    IN  IF ~IsStr(id_cell) THEN Failed(tree, "TypeError")
        ELSE Returned(WriteFile(makedirs(tree, session_folder),
                                Append(session_folder, output_file),
                                Tsv([n \in 1..Len(payload) |-> fields[payload[n]]],
                                    [n \in 1..Len(payload) |->
                                        clean_text(convert_floats(row[positions[payload[n]]]))])))

\* the loop over the rows 1 .. n; an error ends it
RECURSIVE LegacyRowsUpTo(_, _, _, _, _)
LegacyRowsUpTo(tree, df, keep, task, n) ==
    IF n = 0 THEN Returned(tree)
    ELSE LET before == LegacyRowsUpTo(tree, df, keep, task, n - 1)
         IN  IF before.error # "none" THEN before
             ELSE LegacyProcessRow(before.fs, df.columns, df.rows[n], keep, task)

\* the headers after the renaming of 'id' and 'ses' and the second normalization
LegacyRenamedColumns(columns) ==
    NormalizeColumns([n \in 1..Len(columns) |->
        LET col == normalize_item_name(Str(columns[n]))
        IN  IF col = T_id THEN T_subject_id
            ELSE IF col = T_ses THEN T_session
            ELSE col])

\* create_bids_structure_and_copy_data for a task spreadsheet with an itemname column
create_bids_structure_and_copy_data(tree, session_file, task, task_rows) ==
    IF ~(HasColumn(NormalizeColumns(session_file.columns), T_id)
         /\ HasColumn(NormalizeColumns(session_file.columns), T_ses))
    THEN Failed(tree, "ValueError")
    ELSE LET columns == LegacyRenamedColumns(session_file.columns)
             df == Table(columns, session_file.rows)
             keep == LegacyRelevantColumns(columns, task, LegacyTaskItems(task_rows))
         IN  IF Len(FilteredPositions(columns, <<T_subject_id, T_session>> \o keep)) = 2
             THEN Returned(tree)
             ELSE LegacyRowsUpTo(tree, df, keep, task, Len(df.rows))

\* behave.create_bids_structure_and_copy_data on the next session file; an error
\* is not caught by main and ends the run
CreateBidsStructureAndCopyData ==
    /\ variant = "legacy"
    /\ pc.phase = "extract"
    /\ LET r == create_bids_structure_and_copy_data(fs, session_files[pc.file], task_name, df_main)
       IN  /\ fs' = r.fs
           /\ raised' = IF r.error = "none" THEN raised
                        ELSE raised \cup {[file |-> pc.file, error |-> r.error]}
           /\ pc' = IF r.error # "none" THEN [pc EXCEPT !.phase = "raised"] ELSE AfterSessionFile
    /\ UNCHANGED <<variant, task_name, session_files, task_files, removed>>

\* read_session_data.py, the extractor main.py imports: the example rows of
\* the task sheet are items too
ReadSessionTaskItems(rows) == {normalize_item_name(rows[n].itemname) : n \in 1..Len(rows)}

\* the body of its loop over df_filtered.itertuples for one row: the row is
\* written as it is, with its subject_id and session fields, under
\* bids/rawdata, which is the output folder of main.py
ReadSessionProcessRow(tree, columns, row, keep, task) ==
    LET positions == FilteredPositions(columns, <<T_subject_id, T_session>> \o keep)
        fields == FieldNames([n \in 1..Len(positions) |-> columns[positions[n]]])
        id_cell == row[ColumnIndex(columns, T_subject_id)]
        collapsed == CollapseSubPrefix(id_cell.str)
        subject_id == IF StartsWith(collapsed, T_sub) THEN collapsed ELSE T_sub \o collapsed
        session == PyStr(row[ColumnIndex(columns, T_session)])
        session_folder == <<subject_id, T_ses_ \o session, T_beh>>
        output_file == subject_id \o <<"_">> \o T_ses_ \o session \o <<"_">>
                       \o T_task_ \o Lower(task) \o T_beh_tsv
    IN  IF ~IsStr(id_cell) THEN Failed(tree, "TypeError")
        ELSE Returned(WriteFile(makedirs(tree, session_folder),
                                Append(session_folder, output_file),
                                Tsv(fields,
                                    [n \in 1..Len(positions) |->
                                        convert_floats(row[positions[n]])])))

\* the loop over the rows 1 .. n; an error ends it
RECURSIVE ReadSessionRowsUpTo(_, _, _, _, _)
ReadSessionRowsUpTo(tree, df, keep, task, n) ==
    IF n = 0 THEN Returned(tree)
    ELSE LET before == ReadSessionRowsUpTo(tree, df, keep, task, n - 1)
         IN  IF before.error # "none" THEN before
             ELSE ReadSessionProcessRow(before.fs, df.columns, df.rows[n], keep, task)

\* read_session_data.create_bids_structure_and_copy_data
read_session_data(tree, session_file, task, task_rows) ==
    IF ~(HasColumn(NormalizeColumns(session_file.columns), T_id)
         /\ HasColumn(NormalizeColumns(session_file.columns), T_ses))
    THEN Failed(tree, "ValueError")
    ELSE LET columns == LegacyRenamedColumns(session_file.columns)
             df == Table(columns, session_file.rows)
             keep == LegacyRelevantColumns(columns, task, ReadSessionTaskItems(task_rows))
         IN  IF Len(FilteredPositions(columns, <<T_subject_id, T_session>> \o keep)) = 2
             THEN Returned(tree)
             ELSE ReadSessionRowsUpTo(tree, df, keep, task, Len(df.rows))

\* read_session_data.create_bids_structure_and_copy_data on the next session
\* file; main.py does not catch its errors
ReadSessionData ==
    /\ variant = "main"
    /\ pc.phase = "extract"
    /\ LET r == read_session_data(fs, session_files[pc.file], task_name, df_main)
       IN  /\ fs' = r.fs
           /\ raised' = IF r.error = "none" THEN raised
                        ELSE raised \cup {[file |-> pc.file, error |-> r.error]}
           /\ pc' = IF r.error # "none" THEN [pc EXCEPT !.phase = "raised"] ELSE AfterSessionFile
    /\ UNCHANGED <<variant, task_name, session_files, task_files, removed>>

-----------------------------------------------------------------------------
(* Session spreadsheets and tasks *)

MaxSessionRows == 2

T_AD == <<"A", "D">>
T_ADS == <<"A", "D", "S">>
T_AD1 == <<"A", "D", "1">>
T_ADS_1 == <<"A", "D", "S", "-", "1">>
T_AD_dot_1 == <<"A", "D", ".", "1">>
T_ads1 == <<"a", "d", "s", "1">>
T_x == <<"x">>

\* the item sheet of a task: only the itemname column is read by the extractor
TaskSheet(names) ==
    [n \in 1..Len(names) |-> ItemRow(names[n], Str(T_q1), NaN, <<NaN>>, <<NaN>>)]

\* two tasks, the name of the first a part of the name of the second; the first
\* declares an item that does not carry its name, an item name that is no
\* identifier, a row without a name and an example row
Tasks ==
    {[name |-> T_AD,
      rows |-> TaskSheet(<<Str(<<"a", "d", "-", "1">>), Str(T_x), Str(T_AD_dot_1), NaN,
                           Str(T_example \o <<" ">> \o T_AD \o <<"9">>)>>)],
     [name |-> T_ADS,
      rows |-> TaskSheet(<<Str(<<"A", "D", "S", "_", "1">>)>>)]}

\* the data headers of a session file, in sheet order; two of them are the
\* same header after normalization
ItemHeaders == <<T_AD1, T_ADS_1, T_ads1, T_x, T_AD_dot_1>>
\* the sub-sequences of a sequence
SubSeqsOf(s) ==
    {SelectSeq(s, LAMBDA x : x \in keep) : keep \in SUBSET {s[n] : n \in 1..Len(s)}}

\* the header rows: the id column ('id', 'ID' or none), the ses column or none,
\* and some of the data headers
SessionHeaders ==
    {i \o s \o d : i \in {<<T_id>>, <<Upper(T_id)>>, <<>>},
                   s \in {<<T_ses>>, <<>>},
                   d \in SubSeqsOf(ItemHeaders)}

\* the id and ses cells of a row
IdSesCells ==
    {<<Str(T_sub \o T_01), Num(1)>>,
     <<Str(<<"7">>), Str(<<"2">>)>>,
     <<Num(7), NaN>>}

\* the row of a session file with the given id and ses cells: text under the
\* headers x and AD.1, a number under the other data headers, one of its own
\* under ads1
SessionRow(columns, cells) ==
    [n \in 1..Len(columns) |->
        IF Lower(columns[n]) = T_id THEN cells[1]
        ELSE IF Lower(columns[n]) = T_ses THEN cells[2]
        ELSE IF columns[n] \in {T_x, T_AD_dot_1} THEN Str(<<"a", ",", "\n", "\t", "b", " ">>)
        ELSE IF columns[n] = T_ads1 THEN Num(4)
        ELSE Num(3)]

\* the id and ses cells of session files whose rows share a subject and a
\* session: the number 7 as text, as a number and with its prefix, the first
\* session as text, as a number and as an empty cell
PairCells ==
    {<<Str(<<"7">>), Str(<<"1">>)>>,
     <<Num(7), Num(1)>>,
     <<Str(T_sub \o <<"0", "0", "7">>), NaN>>,
     <<Str(<<"8">>), Str(<<"1">>)>>}

\* row n of such a file: the number n under every data header
NumberedRow(columns, cells, n) ==
    [j \in 1..Len(columns) |->
        IF Lower(columns[j]) = T_id THEN cells[1]
        ELSE IF Lower(columns[j]) = T_ses THEN cells[2]
        ELSE Num(n)]

NumberedTables ==
    {read_excel(columns, [n \in 1..Len(cells) |-> NumberedRow(columns, cells[n], n)]) :
        columns \in {<<T_id, T_ses, T_AD1>>, <<T_id, T_ses, T_AD1, T_ADS_1>>},
        cells \in SeqsUpTo(PairCells, MaxSessionRows)}

SessionTables ==
    {read_excel(columns, [n \in 1..Len(cells) |-> SessionRow(columns, cells[n])]) :
        columns \in SessionHeaders, cells \in SeqsUpTo(IdSesCells, MaxSessionRows)}

-----------------------------------------------------------------------------
(* Orphan cleanup: bids_converter.cleanup_unused_json_files and              *)
(* behave.cleanup_unused_task_json                                           *)

MaxCleanupRuns == 2

File == [file |-> TRUE]
Basename(path) == path[Len(path)]

\* glob does not show files and directories whose name begins with a dot
Visible(path) == \A n \in 1..Len(path) : path[n] = <<>> \/ path[n][1] # "."

\* a glob that goes into the directories
TaskJsonFilesAnyDepth(tree) ==
    {p \in DOMAIN tree :
        /\ tree[p] # Dir
        /\ Visible(p)
        /\ StartsWith(p[Len(p)], T_task_)
        /\ EndsWith(p[Len(p)], T_beh_json)}

\* glob(output_folder/task-*_beh.json): the files directly under the root
\* whose name begins with task- and ends with _beh.json
TaskJsonFiles(tree) ==
    {p \in DOMAIN tree :
        /\ Len(p) = 1
        /\ tree[p] # Dir
        /\ Visible(p)
        /\ Len(p[1]) >= Len(T_task_) + Len(T_beh_json)
        /\ StartsWith(p[1], T_task_)
        /\ EndsWith(p[1], T_beh_json)}

\* name.replace("task-", "").replace("_beh.json", "")
ExtractedTaskName(name) == Remove(Remove(name, T_task_), T_beh_json)

\* glob(output_folder/**/*task-<name>_beh.tsv, recursive=True), for a name
\* without pattern characters
MatchingTsvFiles(tree, name) ==
    {p \in DOMAIN tree : Visible(p) /\ EndsWith(Basename(p), T_task_ \o name \o T_beh_tsv)}

\* a loop that ends after the first sidecar it removes
UnusedJsonFilesFirstOnly(tree) ==
    LET unused == {p \in TaskJsonFiles(tree) :
                      MatchingTsvFiles(tree, ExtractedTaskName(p[1])) = {}}
    IN  IF unused = {} THEN {} ELSE {CHOOSE p \in unused : TRUE}

\* the sidecars a cleanup run removes
UnusedJsonFiles(tree) ==
    {p \in TaskJsonFiles(tree) : MatchingTsvFiles(tree, ExtractedTaskName(p[1])) = {}}

cleanup_unused_json_files(tree) ==
    [p \in DOMAIN tree \ UnusedJsonFiles(tree) |-> tree[p]]

\* behave.cleanup_unused_task_json: the same steps
cleanup_unused_task_json(tree) ==
    [p \in DOMAIN tree \ {q \in TaskJsonFiles(tree) :
                            MatchingTsvFiles(tree, Remove(Remove(q[1], T_task_), T_beh_json)) = {}}
        |-> tree[p]]

CleanupUnusedJsonFiles ==
    /\ variant = "modular"
    /\ pc.phase = "cleanup"
    /\ pc.runs < MaxCleanupRuns
    /\ fs' = cleanup_unused_json_files(fs)
    /\ removed' = removed \cup (DOMAIN fs \ DOMAIN cleanup_unused_json_files(fs))
    /\ pc' = [pc EXCEPT !.runs = @ + 1, !.phase = IF task_files = <<>> THEN @ ELSE "done"]
    /\ UNCHANGED <<variant, task_name, session_files, task_files, raised>>

\* in a run of main the validator is called next
CleanupUnusedTaskJson ==
    /\ variant = "legacy"
    /\ pc.phase = "cleanup"
    /\ pc.runs < MaxCleanupRuns
    /\ fs' = cleanup_unused_task_json(fs)
    /\ removed' = removed \cup (DOMAIN fs \ DOMAIN cleanup_unused_task_json(fs))
    /\ pc' = [pc EXCEPT !.runs = @ + 1, !.phase = IF task_files = <<>> THEN @ ELSE "validate"]
    /\ UNCHANGED <<variant, task_name, session_files, task_files, raised>>

\* behave.validate_bids, the last call of main: the validator is an external
\* program that reads the output folder; its failure is logged
ValidateBids ==
    /\ variant = "legacy"
    /\ pc.phase = "validate"
    /\ pc' = [pc EXCEPT !.phase = "done"]
    /\ UNCHANGED <<variant, task_name, session_files, task_files, fs, removed, raised>>

\* main.cleanup_unused_task_json: the same steps, called in the body of the
\* loop of main.py over the task spreadsheets
main_cleanup_unused_task_json(tree) ==
    [p \in DOMAIN tree \ {q \in TaskJsonFiles(tree) :
                            MatchingTsvFiles(tree, Remove(Remove(q[1], T_task_), T_beh_json)) = {}}
        |-> tree[p]]

MainCleanupUnusedTaskJson ==
    /\ variant = "main"
    /\ pc.phase = "cleanup"
    /\ pc.runs < MaxCleanupRuns
    /\ fs' = main_cleanup_unused_task_json(fs)
    /\ removed' = removed \cup (DOMAIN fs \ DOMAIN main_cleanup_unused_task_json(fs))
    /\ pc' = [pc EXCEPT !.runs = @ + 1, !.phase = "validate"]
    /\ UNCHANGED <<variant, task_name, session_files, task_files, raised>>

\* main.validate_bids, the last call of the body of the loop of main.py: the
\* next task spreadsheet follows
MainValidateBids ==
    /\ variant = "main"
    /\ pc.phase = "validate"
    /\ pc' = IF pc.task < Len(task_files)
             THEN [pc EXCEPT !.phase = "parse", !.task = @ + 1, !.file = 1]
             ELSE [pc EXCEPT !.phase = "done"]
    /\ UNCHANGED <<variant, task_name, session_files, task_files, fs, removed, raised>>

\* an output tree: the files and the directories above them
TreeOf(files) ==
    [p \in files \cup UNION {{SubSeq(f, 1, n) : n \in 1..(Len(f) - 1)} : f \in files}
        |-> IF p \in files THEN File ELSE Dir]

T_sub01 == T_sub \o T_01
T_ses1 == T_ses_ \o <<"1">>
T_x_task_ad == <<"x", "-", "t", "a", "s", "k", "-", "a", "d">>
SidecarName(task) == T_task_ \o task \o T_beh_json
TsvPath(task) ==
    <<T_sub01, T_ses1, T_beh,
      T_sub01 \o <<"_">> \o T_ses1 \o <<"_">> \o T_task_ \o task \o T_beh_tsv>>

\* the files an output tree is made of: the sidecars and the TSVs of three
\* tasks, one of them with task- in its name, and files cleanup has no part in
OutputFiles ==
    {<<SidecarName(Lower(T_AD))>>, <<SidecarName(Lower(T_ADS))>>, <<SidecarName(T_x_task_ad)>>,
     TsvPath(Lower(T_AD)), TsvPath(Lower(T_ADS)), TsvPath(T_x_task_ad),
     <<<<"p", "a", "r", "t", "i", "c", "i", "p", "a", "n", "t", "s", ".", "t", "s", "v">>>>,
     <<<<"p", "a", "r", "t", "i", "c", "i", "p", "a", "n", "t", "s", ".", "j", "s", "o", "n">>>>,
     <<<<"d", "a", "t", "a", "s", "e", "t", "_", "d", "e", "s", "c", "r", "i", "p", "t", "i", "o", "n",
         ".", "j", "s", "o", "n">>>>,
     <<T_sub01, T_ses1, T_beh, SidecarName(Lower(T_AD))>>}

-----------------------------------------------------------------------------
(* A run: behave.main from its loop over the task spreadsheets on, and the   *)
(* same calls made on a BIDSConverter for one task and one session file      *)

\* a JSON file and its document
Json(doc) == [json |-> doc]
IsJson(content) == DOMAIN content = {"json"}

\* a task spreadsheet: the name of the file without its extension, the number
\* of its sheets, the rows of sheet 1 and of the two metadata sheets
TaskFile(name, sheets, rows, meta) ==
    [name |-> name, sheets |-> sheets, rows |-> rows, meta |-> meta]

\* load_and_validate_excel on a spreadsheet whose sheets carry the required
\* columns: the number of sheets is checked first
load_and_validate_excel(task_file) ==
    IF task_file.sheets < 3 THEN "ExcelValidationError" ELSE "none"

\* a conversion that creates the output file before it loads the spreadsheet
ConvertTaskFileWriteFirst(tree, task_file, output_json_file, anon) ==
    IF load_and_validate_excel(task_file) # "none"
    THEN Failed(WriteFile(tree, output_json_file, Json(EmptyDict)),
                load_and_validate_excel(task_file))
    ELSE LET r == convert_excel_to_json(task_file.rows, task_file.meta, anon)
         IN  IF IsWritten(r)
             THEN Returned(WriteFile(tree, output_json_file, Json(r.written)))
             ELSE Failed(WriteFile(tree, output_json_file, Json(EmptyDict)), r.error)

\* BIDSConverter.convert_excel_to_json(excel_file, output_json_file, anonymize)
ConvertTaskFile(tree, task_file, output_json_file, anon) ==
    IF load_and_validate_excel(task_file) # "none"
    THEN Failed(tree, load_and_validate_excel(task_file))
    ELSE LET r == convert_excel_to_json(task_file.rows, task_file.meta, anon)
         IN  IF IsWritten(r)
             THEN Returned(WriteFile(tree, output_json_file, Json(r.written)))
             ELSE Failed(tree, r.error)

\* behave.convert_excel_to_json_updated(excel_file, output_json_file, anonymize)
ConvertTaskFileUpdated(tree, task_file, output_json_file, anon) ==
    IF task_file.sheets < 3
    THEN Failed(tree, "ValueError")
    ELSE Returned(WriteFile(tree, output_json_file,
             Json(convert_excel_to_json_updated(task_file.rows, task_file.meta, anon).written)))

\* main: task_name is the upper-cased file name, the sidecar is written to
\* task-<lower-cased task_name>_beh.json under the output folder
MainTaskName(task_file) == Upper(task_file.name)
MainJsonFile(task_file) == <<T_task_ \o Lower(MainTaskName(task_file)) \o T_beh_json>>

\* the sidecar of the next task spreadsheet, written by the BIDSConverter
MainConvertExcelToJson ==
    /\ variant = "modular"
    /\ pc.phase = "parse"
    /\ LET task_file == task_files[pc.task]
           r == ConvertTaskFile(fs, task_file, MainJsonFile(task_file), anonymize)
       IN  /\ task_name' = MainTaskName(task_file)
           /\ df_main' = task_file.rows
           /\ df_meta' = task_file.meta
           /\ fs' = r.fs
           /\ raised' = IF r.error = "none" THEN raised
                        ELSE raised \cup {[file |-> 0, error |-> r.error]}
           /\ pc' = IF r.error # "none" THEN [pc EXCEPT !.phase = "raised"]
                    ELSE [pc EXCEPT !.phase = "extract", !.file = 1]
    /\ UNCHANGED <<anonymize, main_json, sidecar, legacy_sidecar>>
    /\ UNCHANGED <<variant, session_files, task_files, removed>>

\* the sidecar of the next task spreadsheet, written by main; an error is not
\* caught by main and ends the run
MainConvertExcelToJsonUpdated ==
    /\ variant = "legacy"
    /\ pc.phase = "parse"
    /\ LET task_file == task_files[pc.task]
           r == ConvertTaskFileUpdated(fs, task_file, MainJsonFile(task_file), FALSE)
       IN  /\ task_name' = MainTaskName(task_file)
           /\ df_main' = task_file.rows
           /\ df_meta' = task_file.meta
           /\ fs' = r.fs
           /\ raised' = IF r.error = "none" THEN raised
                        ELSE raised \cup {[file |-> 0, error |-> r.error]}
           /\ pc' = IF r.error # "none" THEN [pc EXCEPT !.phase = "raised"]
                    ELSE [pc EXCEPT !.phase = "extract", !.file = 1]
    /\ UNCHANGED <<anonymize, main_json, sidecar, legacy_sidecar>>
    /\ UNCHANGED <<variant, session_files, task_files, removed>>

\* import_dataset.convert_excel_to_json_updated, the parser main.py imports:
\* the entry of one row has its Levels and no Units
ImportItemEntry(row, idx, anon) ==
    IF NumLevels(row) > 0 /\ LegacyLikertLevels(row, NumLevels(row)) # EmptyDict
    THEN DictSet(DictSet(EmptyDict, "Description",
                         IF anon THEN Str(T_Question \o Decimal(idx)) ELSE row.itemdescription),
                 "Levels", LegacyLikertLevels(row, NumLevels(row)))
    ELSE DictSet(EmptyDict, "Description",
                 IF anon THEN Str(T_Question \o Decimal(idx)) ELSE row.itemdescription)

\* its loop over df_main: the key of an entry is the trimmed item name
RECURSIVE ImportMainUpTo(_, _, _)
ImportMainUpTo(rows, n, anon) ==
    IF n = 0 THEN EmptyDict
    ELSE IF StartsWith(Lower(LegacyItemKey(rows[n])), T_itemname)
    THEN ImportMainUpTo(rows, n - 1, anon)
    ELSE DictSet(ImportMainUpTo(rows, n - 1, anon), LegacyItemKey(rows[n]),
                 ImportItemEntry(rows[n], n - 1, anon))

import_dataset_convert_excel_to_json_updated(rows, meta, anon) ==
    Written(LegacyMetadataUpTo(
                LegacyMetadataUpTo(ImportMainUpTo(rows, Len(rows), anon), meta[1], Len(meta[1])),
                meta[2], Len(meta[2])))

\* the call on a spreadsheet: pd.read_excel raises ValueError for a sheet the
\* file does not have
ImportConvertTaskFile(tree, task_file, output_json_file, anon) ==
    IF task_file.sheets < 3
    THEN Failed(tree, "ValueError")
    ELSE Returned(WriteFile(tree, output_json_file,
             Json(import_dataset_convert_excel_to_json_updated(
                      task_file.rows, task_file.meta, anon).written)))

\* the sidecar of the next task spreadsheet, written by main.py; an error is
\* not caught and ends the run
MainImportConvertExcelToJson ==
    /\ variant = "main"
    /\ pc.phase = "parse"
    /\ \E r \in {ImportConvertTaskFile(fs, task_files[pc.task],
                                        MainJsonFile(task_files[pc.task]), FALSE)} :
           /\ task_name' = MainTaskName(task_files[pc.task])
           /\ df_main' = task_files[pc.task].rows
           /\ df_meta' = task_files[pc.task].meta
           /\ fs' = r.fs
           /\ raised' = IF r.error = "none" THEN raised
                        ELSE raised \cup {[file |-> 0, error |-> r.error]}
           /\ pc' = IF r.error # "none" THEN [pc EXCEPT !.phase = "raised"]
                    ELSE [pc EXCEPT !.phase = "extract", !.file = 1]
    /\ UNCHANGED <<anonymize, main_json, sidecar, legacy_sidecar>>
    /\ UNCHANGED <<variant, session_files, task_files, removed>>

\* the task spreadsheet PHQ9.xlsx: nine items PHQ9-1 .. PHQ9-9 without Likert
\* levels, each with a unit, and empty metadata sheets
T_PHQ9 == <<"P", "H", "Q", "9">>
PHQ9Item(n) == T_PHQ9 \o <<"-">> \o Decimal(n)
PHQ9Items == [n \in 1..9 |-> PHQ9Item(n)]
PHQ9File(name) ==
    TaskFile(name, 3,
             [n \in 1..9 |-> ItemRow(Str(PHQ9Item(n)), Str(T_q1), NaN, <<NaN>>, <<Str(T_lo)>>)],
             <<<<>>, <<>>>>)

\* the id and ses cells of the rows of its session file
ScenarioCells ==
    IdSesCells \cup {<<Str(T_sub \o T_sub \o T_01), Str(<<"2">>)>>, <<Str(<<"9">>), Num(1)>>}

\* the session files with the columns id, ses, PHQ9-1 .. PHQ9-9, with or without
\* a column of another questionnaire after them
ScenarioTables ==
    {read_excel(columns, [n \in 1..Len(cells) |-> SessionRow(columns, cells[n])]) :
        columns \in {<<T_id, T_ses>> \o PHQ9Items, <<T_id, T_ses>> \o PHQ9Items \o <<T_x>>},
        cells \in SeqsUpTo(ScenarioCells, MaxSessionRows)}

\* the task spreadsheets of a run: the two tasks, a spreadsheet of two sheets
\* and a spreadsheet of three sheets without a row
RunTaskFiles ==
    {TaskFile(task.name, 3, task.rows, <<<<>>, <<>>>>) : task \in Tasks}
    \cup {TaskFile(T_x, 2, TaskSheet(<<Str(T_x)>>), <<<<>>, <<>>>>),
          TaskFile(T_x, 3, <<>>, <<<<>>, <<>>>>)}

\* the output folders a run starts with: an empty one, and one that holds a
\* sidecar of an earlier run
RunFolders == {<<>>, TreeOf({<<SidecarName(T_x)>>})}

\* the session files of a run: one with id and ses and the items of both
\* tasks, one without id, one without ses
RunTextCells == <<<<Str(T_sub \o T_01), Num(1)>>, <<Str(<<"7">>), Str(<<"2">>)>>>>
RunTable(columns) ==
    read_excel(columns, [n \in 1..Len(RunTextCells) |-> SessionRow(columns, RunTextCells[n])])
RunTables ==
    {RunTable(<<T_id, T_ses, T_AD1, T_ADS_1>>),
     RunTable(<<T_ses, T_AD1, T_ADS_1>>),
     RunTable(<<T_id, T_AD1>>)}

-----------------------------------------------------------------------------
(* Demographics builder: BIDSConverter.convert_demographics_to_participants  *)
(* and behave.convert_demographics_to_participants                           *)

T_n_a == <<"n", "/", "a">>
T_null == <<"n", "u", "l", "l">>
T_participant_id == <<"p", "a", "r", "t", "i", "c", "i", "p", "a", "n", "t", "_", "i", "d">>
T_integer == <<"i", "n", "t", "e", "g", "e", "r">>
T_float == <<"f", "l", "o", "a", "t">>
T_cat_num == <<"c", "a", "t", "_", "n", "u", "m">>
T_cat_string == <<"c", "a", "t", "_", "s", "t", "r", "i", "n", "g">>
T_string == <<"s", "t", "r", "i", "n", "g">>
T_Description == <<"D", "e", "s", "c", "r", "i", "p", "t", "i", "o", "n">>
T_LongName == <<"L", "o", "n", "g", "N", "a", "m", "e">>
T_UniqueParticipantIdentifier == <<"U", "n", "i", "q", "u", "e", " ", "p", "a", "r", "t", "i", "c", "i", "p", "a", "n", "t", " ", "i", "d", "e", "n", "t", "i", "f", "i", "e", "r">>
T_ParticipantID == <<"P", "a", "r", "t", "i", "c", "i", "p", "a", "n", "t", " ", "I", "D">>
T_Name == <<"N", "a", "m", "e">>
T_BIDSVersion == <<"B", "I", "D", "S", "V", "e", "r", "s", "i", "o", "n">>
T_DatasetType == <<"D", "a", "t", "a", "s", "e", "t", "T", "y", "p", "e">>
T_Key == <<"K", "e", "y">>
T_Value == <<"V", "a", "l", "u", "e">>
T_Authors == <<"A", "u", "t", "h", "o", "r", "s">>
T_ReferencesAndLinks == <<"R", "e", "f", "e", "r", "e", "n", "c", "e", "s", "A", "n", "d", "L", "i", "n", "k", "s">>
T_Funding == <<"F", "u", "n", "d", "i", "n", "g">>
T_License == <<"L", "i", "c", "e", "n", "s", "e">>
T_raw == <<"r", "a", "w">>
T_derivative == <<"d", "e", "r", "i", "v", "a", "t", "i", "v", "e">>
T_UnnamedDataset == <<"U", "n", "n", "a", "m", "e", "d", " ", "D", "a", "t", "a", "s", "e", "t">>
T_BehaveConvertedDataset == <<"B", "E", "H", "A", "V", "E", " ", "C", "o", "n", "v", "e", "r", "t", "e", "d", " ", "D", "a", "t", "a", "s", "e", "t">>
T_participants_tsv == <<"p", "a", "r", "t", "i", "c", "i", "p", "a", "n", "t", "s", ".", "t", "s", "v">>
T_participants_json == <<"p", "a", "r", "t", "i", "c", "i", "p", "a", "n", "t", "s", ".", "j", "s", "o", "n">>
T_dataset_description_json == <<"d", "a", "t", "a", "s", "e", "t", "_", "d", "e", "s", "c", "r", "i", "p", "t", "i", "o", "n", ".", "j", "s", "o", "n">>
bids_version == <<"1", ".", "8", ".", "0">>
missing_value_code == -999

\* a row of the variable dictionary (sheet 1 of the variables file)
VariableRow(name, type, description) ==
    [VariableName |-> name, DataType |-> type, Description |-> description]

\* df.columns.str.strip().str.lower()
normalize_column_names(columns) == [n \in 1..Len(columns) |-> Lower(Strip(columns[n]))]

\* df_variables['VariableName'].str.strip().str.lower().tolist()
required_columns(variables) ==
    [n \in 1..Len(variables) |-> Lower(Strip(variables[n].VariableName))]

\* dict(zip(VariableName, DataType.str.lower()))[col]: the last row of the name
dtype_map(variables, col) ==
    LET rows == {n \in 1..Len(variables) : required_columns(variables)[n] = col}
    IN  IF rows = {} THEN <<>>
        ELSE Lower(variables[CHOOSE n \in rows : \A m \in rows : m <= n].DataType)

\* df_demo[col] = 'n/a' for every listed column the sheet does not have
RECURSIVE AddMissingColumns(_, _)
AddMissingColumns(df, required) ==
    IF required = <<>> THEN df
    ELSE IF HasColumn(df.columns, Head(required)) THEN AddMissingColumns(df, Tail(required))
    ELSE AddMissingColumns(Table(Append(df.columns, Head(required)),
                                 [r \in 1..Len(df.rows) |-> Append(df.rows[r], Str(T_n_a))]),
                           Tail(required))

\* the sheet with every column kept
SelectColumnsAll(df, labels) == df

\* df_demo[required_columns]
SelectColumns(df, labels) ==
    LET positions == FilteredPositions(df.columns, labels)
    IN  Table([n \in 1..Len(positions) |-> df.columns[positions[n]]],
              [r \in 1..Len(df.rows) |->
                  [n \in 1..Len(positions) |-> df.rows[r][positions[n]]]])

\* the cells of column n, and the table with each column replaced
Column(df, n) == [r \in 1..Len(df.rows) |-> df.rows[r][n]]
FromColumns(df, columns) ==
    Table(df.columns,
          [r \in 1..Len(df.rows) |-> [n \in 1..Len(df.columns) |-> columns[n][r]]])

\* df['participant_id'] = ids; df.drop(columns=['id']): the new column takes
\* the place of a column of that name or comes last
ReplaceIdColumn(df, ids) ==
    LET set == IF HasColumn(df.columns, T_participant_id)
               THEN Table(df.columns,
                          [r \in 1..Len(df.rows) |->
                              [n \in 1..Len(df.columns) |->
                                  IF df.columns[n] = T_participant_id
                                  THEN ids[r]
                                  ELSE df.rows[r][n]]])
               ELSE Table(Append(df.columns, T_participant_id),
                          [r \in 1..Len(df.rows) |-> Append(df.rows[r], ids[r])])
        kept == SelectSeq([n \in 1..Len(set.columns) |-> n],
                          LAMBDA n : set.columns[n] # T_id)
    IN  Table([n \in 1..Len(kept) |-> set.columns[kept[n]]],
              [r \in 1..Len(set.rows) |-> [n \in 1..Len(kept) |-> set.rows[r][kept[n]]]])

\* cols.insert(0, cols.pop(cols.index('participant_id'))); df[cols]
MoveToFront(df, name) ==
    LET i == ColumnIndex(df.columns, name)
        cols == <<name>> \o SelectSeq(df.columns, LAMBDA col : col # name)
    IN  SelectColumns(df, cols)

\* int(s) for a text of digits
RECURSIVE ParseInt(_)
ParseInt(s) ==
    IF s = <<>> THEN 0
    ELSE 10 * ParseInt(SubSeq(s, 1, Len(s) - 1))
         + (CHOOSE d \in 0..9 : DigitChars[d + 1] = s[Len(s)])

\* pd.to_numeric(column, errors='coerce') on numbers and on texts: a text of
\* digits, with a sign or not, is that integer, a text str() made of a float
\* ('30.0', '1.5') is that float, every other text ('nan' too) is missing; a
\* column with a missing or fractional value is a column of floats
ParseText(s) ==
    LET negative == s # <<>> /\ s[1] = "-"
        digits == IF negative THEN Tail(s) ELSE s
        whole == SubSeq(digits, 1, Len(digits) - 2)
    IN  IF digits # <<>> /\ \A n \in 1..Len(digits) : IsDigit(digits[n])
        THEN Num(IF negative THEN 0 - ParseInt(digits) ELSE ParseInt(digits))
        ELSE IF /\ Len(digits) >= 3
                /\ digits[Len(digits) - 1] = "."
                /\ \A n \in 1..Len(whole) : IsDigit(whole[n])
                /\ digits[Len(digits)] = "0"
        THEN Float(IF negative THEN 0 - ParseInt(whole) ELSE ParseInt(whole))
        ELSE IF /\ Len(digits) >= 3
                /\ ~negative
                /\ digits[Len(digits) - 1] = "."
                /\ \A n \in 1..Len(whole) : IsDigit(whole[n])
                /\ digits[Len(digits)] = "5"
        THEN Frac(ParseInt(whole))
        ELSE NaN
ParseNumber(v) ==
    IF IsStr(v) THEN ParseText(v.str)
    ELSE IF v = None THEN NaN
    ELSE v
to_numeric(column) ==
    LET parsed == [r \in 1..Len(column) |-> ParseNumber(column[r])]
    IN  IF \E r \in 1..Len(parsed) : ~IsNum(parsed[r])
        THEN [r \in 1..Len(parsed) |->
                 IF IsNum(parsed[r]) THEN Float(parsed[r].num) ELSE parsed[r]]
        ELSE parsed

\* numeric_column.astype(pd.Int64Dtype()): TypeError when a value has a fraction
CanInt64(column) == \A r \in 1..Len(column) : ~IsFrac(column[r])
ToInt64(column) ==
    [r \in 1..Len(column) |-> IF IsFloat(column[r]) THEN Num(column[r].float) ELSE column[r]]

\* column.astype(str)
astype_str(column) == [r \in 1..Len(column) |-> Str(PyStr(column[r]))]

\* numeric_col.notna().all() and (numeric_col % 1 == 0).all()
AllWhole(column) == \A r \in 1..Len(column) : column[r] # NaN /\ ~IsFrac(column[r])

\* one pass of the loop of excel_handler.convert_data_types; the exception of
\* a conversion is logged and leaves the column as it was
ConvertColumn(column, data_type) ==
    IF data_type = T_integer
    THEN IF CanInt64(to_numeric(column)) THEN ToInt64(to_numeric(column)) ELSE column
    ELSE IF data_type = T_float THEN to_numeric(column)
    ELSE IF data_type = T_cat_num
    THEN IF AllWhole(to_numeric(column)) THEN ToInt64(to_numeric(column))
         ELSE astype_str(column)
    ELSE IF data_type \in {T_cat_string, T_string} THEN astype_str(column)
    ELSE column

convert_data_types(df, variables) ==
    FromColumns(df, [n \in 1..Len(df.columns) |->
                        ConvertColumn(Column(df, n), dtype_map(variables, df.columns[n]))])

\* df.replace(-999, pd.NA)
ReplaceMissingCode(df) ==
    Table(df.columns,
          [r \in 1..Len(df.rows) |->
              [n \in 1..Len(df.columns) |->
                  IF df.rows[r][n] \in {Num(missing_value_code), Float(missing_value_code)}
                  THEN NaN ELSE df.rows[r][n]]])

\* df['participant_id'] = df['id'].apply(validate_subject_id); the id column
\* is dropped and participant_id moved to the front
WithParticipantId(selected) ==
    IF HasColumn(selected.columns, T_id)
    THEN MoveToFront(
             ReplaceIdColumn(selected,
                 [r \in 1..Len(selected.rows) |->
                     Str(validate_subject_id(
                             selected.rows[r][ColumnIndex(selected.columns, T_id)]))]),
             T_participant_id)
    ELSE selected

\* BIDSConverter._prepare_participants_data
_prepare_participants_data(demo, variables) ==
    ReplaceMissingCode(
        convert_data_types(
            WithParticipantId(
                SelectColumns(AddMissingColumns(demo, required_columns(variables)),
                              required_columns(variables))),
            variables))

\* validators.sanitize_for_tsv
sanitize_for_tsv(value) ==
    IF isna(value) THEN T_n_a
    ELSE LET sanitized == Strip(CollapseWhitespace(
                              ReplaceChars(PyStr(value), {"\t", "\n", "\r"})))
         IN  IF Lower(sanitized) \in {<<>>, T_nan, Lower(T_None), T_null}
             THEN T_n_a
             ELSE sanitized

\* _write_participants_tsv: every cell sanitized, then to_csv
_write_participants_tsv(tree, df) ==
    WriteFile(tree, <<T_participants_tsv>>,
              Table(df.columns,
                    [r \in 1..Len(df.rows) |->
                        [n \in 1..Len(df.columns) |-> Str(sanitize_for_tsv(df.rows[r][n]))]]))

\* the entry of participant_id in participants.json
ParticipantIdEntry ==
    DictSet(DictSet(EmptyDict, T_Description, Str(T_UniqueParticipantIdentifier)),
            T_LongName, Str(T_ParticipantID))

\* the entries of the first n rows of a dictionary without a Levels column:
\* the id row is skipped, the description is str(description) for the
\* BIDSConverter (as_text) and the cell as it is for behave.py
RECURSIVE VariableEntries(_, _, _)
VariableEntries(variables, n, as_text) ==
    IF n = 0 THEN EmptyDict
    ELSE LET before == VariableEntries(variables, n - 1, as_text)
             variable_name == Lower(variables[n].VariableName)
             description == IF as_text THEN Str(PyStr(variables[n].Description))
                            ELSE variables[n].Description
         IN  IF variable_name = T_id THEN before
             ELSE DictSet(before, variable_name,
                          DictSet(EmptyDict, T_Description, description))

\* the variable names of the dictionary as load_variables_file and behave.py
\* leave them: trimmed and lower-cased
NormalizedVariables(variables) ==
    [n \in 1..Len(variables) |->
        [variables[n] EXCEPT !.VariableName = Lower(Strip(@))]]

\* _write_participants_json
_write_participants_json(tree, variables) ==
    WriteFile(tree, <<T_participants_json>>,
              Json(DictSet(VariableEntries(variables, Len(variables), TRUE),
                           T_participant_id, ParticipantIdEntry)))

\* a JSON array of texts
List(items) == [list |-> items]
IsList(v) == DOMAIN v = {"list"}

\* load_variables_file: the rows of sheet 2 as dict(zip(keys.astype(str),
\* values.astype(str))) in insertion order, a later row of a key replacing the
\* value of the earlier one in place; {} for a sheet that cannot be read or
\* has fewer than two columns
RECURSIVE LoadDescriptionUpTo(_, _)
LoadDescriptionUpTo(rows, n) ==
    IF n = 0 THEN <<>>
    ELSE LET before == LoadDescriptionUpTo(rows, n - 1)
             key == PyStr(rows[n][1])
             value == PyStr(rows[n][2])
         IN  IF \E m \in 1..Len(before) : before[m][1] = key
             THEN [m \in 1..Len(before) |->
                      IF before[m][1] = key THEN <<key, value>> ELSE before[m]]
             ELSE Append(before, <<key, value>>)
load_dataset_description(sheet) ==
    IF sheet = None THEN <<>>
    ELSE IF Len(sheet.columns) < 2 THEN <<>>
    ELSE LoadDescriptionUpTo(sheet.rows, Len(sheet.rows))

\* str.split(sep) for a separator of one character
RECURSIVE Split(_, _)
Split(s, sep) ==
    IF \A n \in 1..Len(s) : s[n] # sep THEN <<s>>
    ELSE LET i == CHOOSE n \in 1..Len(s) : s[n] = sep /\ \A m \in 1..(n - 1) : s[m] # sep
         IN  <<SubSeq(s, 1, i - 1)>> \o Split(SubSeq(s, i + 1, Len(s)), sep)
StripEach(items) == [n \in 1..Len(items) |-> Strip(items[n])]

\* _process_array_field: split on ';', else on ',', entries trimmed and the
\* empty ones removed
_process_array_field(field_str) ==
    IF field_str = <<>> THEN <<>>
    ELSE SelectSeq(IF \E n \in 1..Len(field_str) : field_str[n] = ";"
                   THEN StripEach(Split(field_str, ";"))
                   ELSE IF \E n \in 1..Len(field_str) : field_str[n] = ","
                   THEN StripEach(Split(field_str, ","))
                   ELSE <<Strip(field_str)>>,
                   LAMBDA item : item # <<>>)
\* _process_authors_field: the same steps
_process_authors_field(authors_str) ==
    IF authors_str = <<>> THEN <<>>
    ELSE SelectSeq(IF \E n \in 1..Len(authors_str) : authors_str[n] = ";"
                   THEN StripEach(Split(authors_str, ";"))
                   ELSE IF \E n \in 1..Len(authors_str) : authors_str[n] = ","
                   THEN StripEach(Split(authors_str, ","))
                   ELSE <<Strip(authors_str)>>,
                   LAMBDA author : author # <<>>)

\* _process_dataset_description: the loop over the first n items
RECURSIVE ProcessDescriptionUpTo(_, _)
ProcessDescriptionUpTo(items, n) ==
    IF n = 0 THEN EmptyDict
    ELSE DictSet(ProcessDescriptionUpTo(items, n - 1),
                 IF Lower(Strip(items[n][1])) \in {Lower(T_ReferencesAndLinks),
                                                   Lower(SubSeq(T_ReferencesAndLinks, 1, 17))}
                 THEN T_ReferencesAndLinks
                 ELSE IF Lower(Strip(items[n][1])) \in {Lower(T_Funding) \o <<"s", "o", "u", "r", "c", "e", "s">>,
                                                        Lower(T_Funding)}
                 THEN T_Funding
                 ELSE IF Lower(Strip(items[n][1])) \in {Lower(T_License), <<"l", "i", "c", "e", "n", "c", "e">>}
                 THEN T_License
                 ELSE Strip(items[n][1]),
                 IF Lower(Strip(items[n][1])) = Lower(T_Authors)
                 THEN List(_process_authors_field(Strip(items[n][2])))
                 ELSE IF Lower(Strip(items[n][1])) \in {Lower(T_ReferencesAndLinks),
                                                        Lower(SubSeq(T_ReferencesAndLinks, 1, 17)),
                                                        Lower(T_Funding) \o <<"s", "o", "u", "r", "c", "e", "s">>,
                                                        Lower(T_Funding)}
                 THEN List(_process_array_field(Strip(items[n][2])))
                 ELSE Str(Strip(items[n][2])))
_process_dataset_description(dataset_desc) ==
    ProcessDescriptionUpTo(dataset_desc, Len(dataset_desc))

\* re.match(r'^\d+\.\d+\.\d+$', s): `$` matches at the end of s and also just
\* before a line break that ends s
IsBidsVersion(s) ==
    \E i, j, e \in 1..Len(s) :
        /\ 1 < i /\ i + 1 < j /\ j < e
        /\ e = Len(s) \/ (e = Len(s) - 1 /\ s[Len(s)] = "\n")
        /\ s[i] = "." /\ s[j] = "."
        /\ \A n \in (1..e) \ {i, j} : IsDigit(s[n])

\* the dictionary with every key it has
_validate_dataset_description_skipped(dataset_desc) == dataset_desc

\* _validate_dataset_description; `not dataset_desc[field]` holds for the
\* empty text and the empty list
_validate_dataset_description(dataset_desc) ==
    LET filled(d, field, default) ==
            IF field \notin DOMAIN d \/ d[field] \in {Str(<<>>), List(<<>>)}
            THEN DictSet(d, field, Str(default)) ELSE d
        required == filled(filled(filled(dataset_desc, T_Name, T_UnnamedDataset),
                                  T_BIDSVersion, bids_version),
                           T_DatasetType, T_raw)
        versioned == IF IsBidsVersion(required[T_BIDSVersion].str) THEN required
                     ELSE DictSet(required, T_BIDSVersion, Str(bids_version))
    IN  IF versioned[T_DatasetType] \in {Str(T_raw), Str(T_derivative)} THEN versioned
        ELSE DictSet(versioned, T_DatasetType, Str(T_raw))

\* _write_dataset_description: the minimal description for an empty
\* dictionary, the processed one otherwise
_write_dataset_description(tree, dataset_description) ==
    WriteFile(tree, <<T_dataset_description_json>>,
              Json(_validate_dataset_description(
                       IF dataset_description = <<>>
                       THEN DictSet(DictSet(EmptyDict, T_Name, Str(T_BehaveConvertedDataset)),
                                    T_BIDSVersion, Str(bids_version))
                       ELSE _process_dataset_description(dataset_description))))

\* BIDSConverter.convert_demographics_to_participants
convert_demographics_to_participants(tree, demo, variables, description) ==
    Returned(_write_dataset_description(
                 _write_participants_json(
                     _write_participants_tsv(
                         tree,
                         _prepare_participants_data(
                             Table(normalize_column_names(demo.columns), demo.rows),
                             NormalizedVariables(variables))),
                     NormalizedVariables(variables)),
                 load_dataset_description(description)))

ConvertDemographicsToParticipants ==
    /\ variant = "modular"
    /\ pc.phase = "participants"
    /\ \E r \in {convert_demographics_to_participants(fs, df_demo, df_variables,
                                                      df_description)} :
           /\ fs' = r.fs
           /\ raised' = IF r.error = "none" THEN raised
                        ELSE raised \cup {[file |-> 0, error |-> r.error]}
           /\ pc' = [pc EXCEPT !.phase = IF r.error = "none" THEN "done" ELSE "raised"]
    /\ UNCHANGED <<variant, task_name, session_files, task_files, removed, demoVars>>

\* the rows of sheet 2 of the variables file, up to MaxDescriptionRows of
\* them: keys in other cases and with blanks around them, a key cell that is
\* empty, values that are blank, invalid or hold empty list entries
MaxDescriptionRows == 2
DescriptionRows ==
    {<<Str(T_Name), Str(<<"S">>)>>,
     <<Str(<<" ">> \o T_Name), Str(<<" ">>)>>,
     <<Str(Lower(T_Name)), Str(<<"x">>)>>,
     <<Str(T_BIDSVersion), Str(<<"1", ".", "8", ".", "0">>)>>,
     <<Str(T_BIDSVersion), Str(<<"1", ".", "8">>)>>,
     <<Str(T_BIDSVersion), NaN>>,
     <<Str(T_DatasetType), Str(T_derivative)>>,
     <<Str(T_DatasetType), Str(<<"R", "a", "w">>)>>,
     <<Str(T_Authors), Str(<<"a", ";", " ", ";", "b">>)>>,
     <<Str(Lower(T_Authors)), Str(<<"a", ",", "b", ",">>)>>,
     <<Str(T_Funding), Str(<<";">>)>>,
     <<Str(T_ReferencesAndLinks), Str(<<"u">>)>>,
     <<Str(<<"L", "i", "c", "e", "n", "c", "e">>), Str(<<"c">>)>>,
     <<NaN, Str(<<"v">>)>>}
DescriptionSheets ==
    {Table(<<T_Key, T_Value>>, rows) : rows \in SeqsUpTo(DescriptionRows, MaxDescriptionRows)}
        \cup {Table(<<T_Key>>, <<<<Str(T_Name)>>>>), None}

\* the first loop of behave.py over the columns: astype('Int64',
\* errors='ignore') leaves a column it cannot cast as numbers
LegacyConvertColumn(column, data_type) ==
    IF data_type = T_integer
    THEN IF CanInt64(to_numeric(column)) THEN ToInt64(to_numeric(column))
         ELSE to_numeric(column)
    ELSE IF data_type = T_float THEN to_numeric(column)
    ELSE IF data_type = T_cat_num
    THEN IF AllWhole(to_numeric(column)) THEN ToInt64(to_numeric(column))
         ELSE astype_str(column)
    ELSE IF data_type = T_cat_string THEN astype_str(column)
    ELSE column

\* df_demo['participant_id'] = df_demo['id'].apply(normalize_id); the id
\* column is dropped
LegacyWithParticipantId(selected) ==
    IF HasColumn(selected.columns, T_id)
    THEN ReplaceIdColumn(selected,
             [r \in 1..Len(selected.rows) |->
                 Str(normalize_id(selected.rows[r][ColumnIndex(selected.columns, T_id)]))])
    ELSE selected

\* if 'participant_id' in cols: participant_id is moved to the front
LegacyMoveToFront(with_id) ==
    IF HasColumn(with_id.columns, T_participant_id)
    THEN MoveToFront(with_id, T_participant_id)
    ELSE with_id

\* the table of behave.convert_demographics_to_participants before its types
\* are applied
LegacySelected(demo, variables) ==
    LegacyMoveToFront(
        LegacyWithParticipantId(
            SelectColumns(AddMissingColumns(demo, required_columns(variables)),
                          required_columns(variables))))

\* the columns the later loops cast with astype(pd.Int64Dtype())
LegacyInt64Columns(df, variables) ==
    {n \in 1..Len(df.columns) : dtype_map(variables, df.columns[n]) \in {T_integer, T_cat_num}}

\* the first loop over the columns: every column but participant_id takes its
\* listed type
LegacyTyped(selected, variables) ==
    FromColumns(selected,
        [n \in 1..Len(selected.columns) |->
            IF selected.columns[n] = T_participant_id THEN Column(selected, n)
            ELSE LegacyConvertColumn(Column(selected, n),
                                     dtype_map(variables, selected.columns[n]))])

\* the second loop: the integer and cat_num columns cast to Int64, a
\* TypeError when one of them holds a fraction
LegacyCastable(typed, variables) ==
    \A n \in LegacyInt64Columns(typed, variables) : CanInt64(to_numeric(Column(typed, n)))
LegacyCast(typed, variables) ==
    FromColumns(typed,
        [n \in 1..Len(typed.columns) |->
            IF n \in LegacyInt64Columns(typed, variables)
            THEN ToInt64(to_numeric(Column(typed, n)))
            ELSE Column(typed, n)])

\* the third loop, after df_demo.replace(-999, pd.NA): the integer columns
\* cast once more
LegacyRecast(replaced, variables) ==
    FromColumns(replaced,
        [n \in 1..Len(replaced.columns) |->
            IF dtype_map(variables, replaced.columns[n]) = T_integer
            THEN ToInt64(to_numeric(Column(replaced, n)))
            ELSE Column(replaced, n)])

\* to_csv(sep='\t', index=False, na_rep='n/a')
to_csv(df) ==
    Table(df.columns,
          [r \in 1..Len(df.rows) |->
              [n \in 1..Len(df.columns) |->
                  IF isna(df.rows[r][n]) THEN Str(T_n_a) ELSE Str(PyStr(df.rows[r][n]))]])

\* the three files behave.py writes from the typed table
LegacyWrite(tree, typed, variables, description) ==
    IF ~LegacyCastable(typed, variables)
    THEN Failed(tree, "TypeError")
    ELSE Returned(
             WriteFile(
                 WriteFile(
                     WriteFile(tree, <<T_participants_tsv>>,
                               to_csv(LegacyRecast(
                                          ReplaceMissingCode(LegacyCast(typed, variables)),
                                          variables))),
                     <<T_participants_json>>,
                     Json(DictSet(VariableEntries(variables, Len(variables), FALSE),
                                  T_participant_id, ParticipantIdEntry))),
                 <<T_dataset_description_json>>,
                 Json(DictSet(EmptyDict, description[1], Str(description[2])))))

\* behave.convert_demographics_to_participants for a variables file whose
\* sheet 2 holds the one row `description`
legacy_convert_demographics_to_participants(tree, demo, variables, description) ==
    LegacyWrite(tree,
                LegacyTyped(
                    LegacySelected(Table(normalize_column_names(demo.columns), demo.rows),
                                   NormalizedVariables(variables)),
                    NormalizedVariables(variables)),
                NormalizedVariables(variables),
                description)

\* the row of sheet 2 of the variables file
DescriptionRow == <<T_Name, <<"S">>>>

LegacyConvertDemographicsToParticipants ==
    /\ variant = "legacy"
    /\ pc.phase = "participants"
    /\ \E r \in {legacy_convert_demographics_to_participants(fs, df_demo, df_variables,
                                                             DescriptionRow)} :
           /\ fs' = r.fs
           /\ raised' = IF r.error = "none" THEN raised
                        ELSE raised \cup {[file |-> 0, error |-> r.error]}
           /\ pc' = [pc EXCEPT !.phase = IF r.error = "none" THEN "done" ELSE "raised"]
    /\ UNCHANGED <<variant, task_name, session_files, task_files, removed, demoVars>>

\* the demographics sheets of up to MaxDemoRows rows: the headers ID, x, age
\* and 'Sex ' or some of them, x a column no dictionary lists
MaxDemoRows == 2
T_age == <<"a", "g", "e">>
T_sex == <<"s", "e", "x">>
T_w == <<"w">>
DemoHeaders == SubSeqsOf(<<Upper(T_id), T_x, T_age, <<"S", "e", "x", " ">>>>)

\* the id, age and sex cells of a row
DemoCells ==
    {<<Str(T_sub \o T_01), Num(30), Str(<<"f">>)>>,
     <<Num(7), NaN, Num(1)>>,
     <<Str(T_42), Str(<<"k">>), Str(<<"f">>)>>}
DemoRow(columns, cells) ==
    [n \in 1..Len(columns) |->
        IF Lower(Strip(columns[n])) = T_id THEN cells[1]
        ELSE IF Lower(Strip(columns[n])) = T_age THEN cells[2]
        ELSE IF Lower(Strip(columns[n])) = T_sex THEN cells[3]
        ELSE Str(<<"u">>)]
DemoTables ==
    {read_excel(columns, [n \in 1..Len(cells) |-> DemoRow(columns, cells[n])]) :
        columns \in DemoHeaders, cells \in SeqsUpTo(DemoCells, MaxDemoRows)}

\* the variable dictionaries: id first, id in the middle, id last, id not
\* listed, names that are not trimmed and lower-cased; w is in no sheet
VariableDictionaries ==
    {<<VariableRow(T_id, T_string, Str(T_q1)),
       VariableRow(T_age, T_integer, Str(T_q2)),
       VariableRow(T_sex, T_cat_string, NaN)>>,
     <<VariableRow(T_age, T_float, Str(T_q1)),
       VariableRow(T_id, T_string, Str(T_q2)),
       VariableRow(T_w, T_integer, Str(T_q2))>>,
     <<VariableRow(T_sex, T_cat_num, Str(T_q1)),
       VariableRow(T_w, T_cat_string, Str(T_q2)),
       VariableRow(T_id, T_string, Str(T_q2))>>,
     <<VariableRow(T_age, T_integer, Str(T_q1)),
       VariableRow(T_w, T_cat_num, Str(T_q2))>>,
     <<VariableRow(<<" ">> \o Upper(T_id) \o <<" ">>, T_string, Str(T_q1)),
       VariableRow(<<"A", "g", "e">>, T_cat_num, Str(T_q2)),
       VariableRow(T_w, T_float, Str(T_q2))>>}

-----------------------------------------------------------------------------
(* Task Definition Parser: the claims *)

\* the item name a row is stored under, trimmed, with every '-' and '_' deleted;
\* the legacy parser names a row without a name 'Unknown Item'
TrimmedName(row) == IF IsStr(row.itemname) THEN Strip(row.itemname.str) ELSE T_UnknownItem
ExpectedKey(row) == Remove(Remove(TrimmedName(row), <<"-">>), <<"_">>)

\* the rows each parser does not skip
ModularStored(rows) == {n \in 1..Len(rows) : ~ItemSkipped(rows[n])}
LegacyStored(rows) ==
    {n \in 1..Len(rows) : ~StartsWith(Lower(TrimmedName(rows[n])), T_itemname)}

\* the last of the rows `stored` whose key is the key of row n
LastWithKey(rows, stored, n) ==
    CHOOSE m \in stored :
        /\ ExpectedKey(rows[m]) = ExpectedKey(rows[n])
        /\ \A o \in stored : ExpectedKey(rows[o]) = ExpectedKey(rows[n]) => o <= m

\* the keys the metadata sheets write
MetaKeys(meta) ==
    UNION {{PyStr(meta[s][n].key) :
               n \in {o \in 1..Len(meta[s]) :
                         notna(meta[s][o].key) /\ notna(meta[s][o].description)}} :
           s \in 1..2}

ItemEntry(doc) == doc.written[ExpectedKey(df_main[1])]
HasLevelsAndUnits(entry) == {"Levels", "Units"} \subseteq DOMAIN entry
UnitsOnly(entry) == "Units" \in DOMAIN entry /\ "Levels" \notin DOMAIN entry

\* likert_scale blank or 0, leveldescription filled
UnitsCase(row) ==
    /\ row.likert_scale \in {NaN, Num(0)}
    /\ Len(row.leveldescription) >= 1
    /\ row.leveldescription[1] # NaN

\* C2: no item entry holds both Levels and Units, and an item whose
\* likert_scale is blank or 0 and whose leveldescription is filled gets Units
\* and no Levels.  Both parsers.
C2_Claim ==
    /\ sidecar # Unset =>
         /\ IsWritten(sidecar)
         /\ \A k \in DOMAIN sidecar.written : ~HasLevelsAndUnits(sidecar.written[k])
         /\ UnitsCase(df_main[1]) => UnitsOnly(ItemEntry(sidecar))
    /\ legacy_sidecar # Unset =>
         /\ \A k \in DOMAIN legacy_sidecar.written : ~HasLevelsAndUnits(legacy_sidecar.written[k])
         /\ UnitsCase(df_main[1]) => UnitsOnly(ItemEntry(legacy_sidecar))

\* both parsers have written an item with a unit; the item of the second
\* witness has levels and a filled first description cell
C2_Witness ==
    /\ IsWritten(sidecar)
    /\ legacy_sidecar # Unset
    /\ UnitsCase(df_main[1])
    /\ ItemEntry(sidecar)["Units"] = Str(<<"m","s">>)
    /\ ItemEntry(legacy_sidecar)["Units"] = Str(<<"m","s">>)

C2_WitnessLevels ==
    /\ IsWritten(sidecar)
    /\ "Levels" \in DOMAIN ItemEntry(sidecar)
    /\ df_main[1].leveldescription[1] # NaN

\* C3: an item of BIDSConverter whose likert_scale is a number greater than 0
\* never gets Units.
C3_Claim ==
    IsWritten(sidecar) =>
        (df_main[1].likert_scale \in {Num(n) : n \in 1..(MaxLevels + 1)}
            => "Units" \notin DOMAIN ItemEntry(sidecar))

\* the legacy parser keeps the rule of C3
C3_Legacy ==
    legacy_sidecar # Unset =>
        (df_main[1].likert_scale \in {Num(n) : n \in 1..(MaxLevels + 1)}
            => "Units" \notin DOMAIN ItemEntry(legacy_sidecar))

\* an item with a positive level count, no usable level and a unit
C3_Witness ==
    /\ IsWritten(sidecar)
    /\ df_main[1].likert_scale = Num(2)
    /\ "Units" \in DOMAIN ItemEntry(sidecar)

\* the pairs of level columns the claim counts: i < n, both columns in the
\* sheet, the level cell accepted as an integer, the description cell filled
ValidPairs(row) ==
    {i \in 0..(NumLevels(row) - 1) :
        /\ i + 1 <= Len(row.levels)
        /\ i + 1 <= Len(row.leveldescription)
        /\ PyInt(row.levels[i + 1]).ok
        /\ row.levels[i + 1] # NaN
        /\ row.leveldescription[i + 1] # NaN}
LevelKey(row, i) == PyStr(Num(PyInt(row.levels[i + 1]).val))
LevelsOf(entry) == IF "Levels" \in DOMAIN entry THEN entry["Levels"] ELSE EmptyDict
PairsOf(levels) == {<<k, levels[k]>> : k \in DOMAIN levels}

\* C4 as stated: the Levels map holds exactly the pairs of the valid columns
C4_Original ==
    /\ IsWritten(sidecar) /\ NumLevels(df_main[1]) > 0 =>
         PairsOf(LevelsOf(ItemEntry(sidecar)))
           = {<<LevelKey(df_main[1], i), Str(PyStr(df_main[1].leveldescription[i + 1]))>> :
                 i \in ValidPairs(df_main[1])}
    /\ legacy_sidecar # Unset /\ NumLevels(df_main[1]) > 0 =>
         PairsOf(LevelsOf(ItemEntry(legacy_sidecar)))
           = {<<LevelKey(df_main[1], i), df_main[1].leveldescription[i + 1]>> :
                 i \in ValidPairs(df_main[1])}

\* the last valid pair with the level value of pair i
LastPair(row, i) ==
    CHOOSE j \in ValidPairs(row) :
        /\ LevelKey(row, j) = LevelKey(row, i)
        /\ \A o \in ValidPairs(row) : LevelKey(row, o) = LevelKey(row, i) => o <= j

LevelsAsAmended(row, entry, text) ==
    /\ ("Levels" \in DOMAIN entry) <=> (ValidPairs(row) # {})
    /\ DOMAIN LevelsOf(entry) = {LevelKey(row, i) : i \in ValidPairs(row)}
    /\ \A i \in ValidPairs(row) :
         LevelsOf(entry)[LevelKey(row, i)]
           = IF text THEN Str(PyStr(row.leveldescription[LastPair(row, i) + 1]))
             ELSE row.leveldescription[LastPair(row, i) + 1]
    /\ (\A i, j \in ValidPairs(row) : i # j => LevelKey(row, i) # LevelKey(row, j))
         => Cardinality(DOMAIN LevelsOf(entry)) = Cardinality(ValidPairs(row))

\* C4: for an item with likert_scale = n > 0 the Levels map has one entry for
\* each level value of a valid pair i < n, holding the description of the last
\* valid pair with that value; pairs that are not valid are skipped, there is
\* no Levels map when no pair is valid, and n valid pairs with distinct values
\* give n entries.  Both parsers.
C4_Amended ==
    /\ IsWritten(sidecar) /\ NumLevels(df_main[1]) > 0 =>
         LevelsAsAmended(df_main[1], ItemEntry(sidecar), TRUE)
    /\ legacy_sidecar # Unset /\ NumLevels(df_main[1]) > 0 =>
         LevelsAsAmended(df_main[1], ItemEntry(legacy_sidecar), FALSE)

\* two valid pairs with one level value and two descriptions, written by both
C4_Witness ==
    /\ IsWritten(sidecar)
    /\ legacy_sidecar # Unset
    /\ NumLevels(df_main[1]) = 2
    /\ ValidPairs(df_main[1]) = {0, 1}
    /\ LevelKey(df_main[1], 0) = LevelKey(df_main[1], 1)
    /\ df_main[1].leveldescription[1] # df_main[1].leveldescription[2]

\* one valid pair next to a pair that is skipped
C4_WitnessSkipped ==
    /\ IsWritten(sidecar)
    /\ NumLevels(df_main[1]) = 2
    /\ ValidPairs(df_main[1]) = {1}
    /\ "Levels" \in DOMAIN ItemEntry(sidecar)

-----------------------------------------------------------------------------
(* Session Extractor: the claims *)

\* the session file of the run and its headers after normalization
SessionFile == session_files[1]
SessionColumns == NormalizeColumns(SessionFile.columns)

\* the session file has the columns id and ses, as both extractors require
HasIdAndSes == HasColumn(SessionColumns, T_id) /\ HasColumn(SessionColumns, T_ses)

\* a session column is matched to the task when it contains its name, in any
\* letter case, and declared when either extractor reads it as an item
MatchedToTask(col) == Contains(Upper(col), Upper(task_name))
DeclaredItem(col) == col \in _extract_task_items(df_main) \cup LegacyTaskItems(df_main)
NoMatchedDeclaredColumn ==
    \A n \in 1..Len(SessionColumns) :
        ~(MatchedToTask(SessionColumns[n]) /\ DeclaredItem(SessionColumns[n]))

\* the call on the session file is over
ExtractionOver == pc.phase \in {"returned", "raised"}

\* C9: when the session file has id and ses and none of its columns is both
\* matched to the task name and a declared item of the task, either extractor
\* leaves the output tree without a directory and without a file and raises
\* no error.
C9_Claim ==
    (ExtractionOver /\ HasIdAndSes /\ NoMatchedDeclaredColumn) =>
        /\ fs = <<>>
        /\ raised = {}
        /\ pc.phase = "returned"

\* the headers that contain the task name are all different after normalization
MatchedColumnsDistinct ==
    \A m, n \in 1..Len(SessionColumns) :
        (m # n /\ MatchedToTask(SessionColumns[n])) => SessionColumns[m] # SessionColumns[n]

\* the skip rule for session files whose matched headers are distinct
C9_DistinctHeaders ==
    (ExtractionOver /\ HasIdAndSes /\ NoMatchedDeclaredColumn /\ MatchedColumnsDistinct) =>
        /\ fs = <<>>
        /\ raised = {}
        /\ pc.phase = "returned"

\* a session file with rows, a column matched to the task that the task does
\* not declare and a declared column that is not matched: the call has
\* returned and has written nothing
C9_Witness ==
    /\ pc.phase = "returned"
    /\ HasIdAndSes
    /\ NoMatchedDeclaredColumn
    /\ Len(SessionFile.rows) >= 1
    /\ \E n \in 1..Len(SessionColumns) :
           MatchedToTask(SessionColumns[n]) /\ ~DeclaredItem(SessionColumns[n])
    /\ \E n \in 1..Len(SessionColumns) :
           ~MatchedToTask(SessionColumns[n]) /\ DeclaredItem(SessionColumns[n])
    /\ fs = <<>>
    /\ raised = {}

\* the modular extractor has raised on a session file with id and ses and no
\* column that is both matched and declared
C9_WitnessRaised ==
    /\ variant = "modular"
    /\ pc.phase = "raised"
    /\ HasIdAndSes
    /\ NoMatchedDeclaredColumn

-----------------------------------------------------------------------------
(* Orphan cleanup: the claims *)

\* the task a sidecar task-<name>_beh.json belongs to
SidecarTaskName(name) == SubSeq(name, Len(T_task_) + 1, Len(name) - Len(T_beh_json))

\* a file *task-<name>_beh.tsv at any depth under the root
HasTsvOfTask(tree, name) ==
    \E p \in DOMAIN tree :
        /\ tree[p] # Dir
        /\ Visible(p)
        /\ EndsWith(Basename(p), T_task_ \o name \o T_beh_tsv)

\* C10: after a cleanup run, a sidecar task-<name>_beh.json directly under the
\* root has been deleted if and only if no file *task-<name>_beh.tsv exists at
\* any depth under the root.  Both cleanups.
C10_Claim ==
    pc.runs >= 1 =>
        \A p \in TaskJsonFiles(fs) \cup removed :
            p \in removed <=> ~HasTsvOfTask(fs, SidecarTaskName(p[1]))

\* a cleanup run has deleted a sidecar whose task has a TSV in the tree
C10_Witness ==
    /\ pc.runs >= 1
    /\ \E p \in removed : HasTsvOfTask(fs, SidecarTaskName(p[1]))
    /\ \E p \in TaskJsonFiles(fs) : HasTsvOfTask(fs, SidecarTaskName(p[1]))

\* the cleanups on sidecars whose task name does not contain task- or _beh.json
C10_PlainNames ==
    pc.runs >= 1 =>
        \A p \in TaskJsonFiles(fs) \cup removed :
            ExtractedTaskName(p[1]) = SidecarTaskName(p[1]) =>
                (p \in removed <=> ~HasTsvOfTask(fs, SidecarTaskName(p[1])))

\* C11: a cleanup run that follows a cleanup run deletes nothing and leaves
\* the output tree as it found it.  Both cleanups.
C11_Claim == [][pc.runs >= 1 => (fs' = fs /\ removed' = removed)]_vars

\* two cleanup runs are over, the first has deleted a sidecar and has kept
\* another
C11_Witness ==
    /\ pc.runs = 2
    /\ removed # {}
    /\ TaskJsonFiles(fs) # {}

-----------------------------------------------------------------------------
(* A run: the claims *)

\* the TSV files of a tree
TsvFiles(tree) == {p \in DOMAIN tree : tree[p] # Dir /\ IsTsv(tree[p])}

\* the id and ses cells of row n of the session file of the scenario
ScenarioId(n) == SessionFile.rows[n][1]
ScenarioSes(n) == SessionFile.rows[n][2]

\* the subjects of the rows are distinct
DistinctSubjects ==
    \A m, n \in 1..Len(SessionFile.rows) :
        m # n => validate_subject_id(ScenarioId(m)) # validate_subject_id(ScenarioId(n))

\* the BIDS path of row n: <subject>/ses-<session>/beh/<subject>_ses-<session>_task-phq9_beh.tsv
ScenarioPath(n) ==
    LET subject == validate_subject_id(ScenarioId(n))
        session == validate_session_id(ScenarioSes(n))
    IN  <<subject, T_ses_ \o session, T_beh,
          subject \o <<"_">> \o T_ses_ \o session \o <<"_">> \o T_task_ \o Lower(T_PHQ9) \o T_beh_tsv>>

\* the id cells of the rows are distinct
DistinctIdCells ==
    \A m, n \in 1..Len(SessionFile.rows) : m # n => ScenarioId(m) # ScenarioId(n)

\* what the scenario leaves when the BIDSConverter has gone through it
ScenarioOutcome ==
    /\ pc.phase = "done"
    /\ raised = {}
    /\ TsvFiles(fs) = {ScenarioPath(n) : n \in 1..Len(SessionFile.rows)}
    /\ Cardinality(TsvFiles(fs)) = Len(SessionFile.rows)
    /\ \A p \in TsvFiles(fs) :
         /\ fs[p].columns = PHQ9Items
         /\ Len(fs[p].cells) = 9
    /\ <<T_task_ \o Lower(T_PHQ9) \o T_beh_json>> \in DOMAIN fs
    /\ IsJson(fs[<<T_task_ \o Lower(T_PHQ9) \o T_beh_json>>])

C12_WitnessSameSubject ==
    /\ variant = "modular"
    /\ pc.phase = "done"
    /\ DistinctIdCells
    /\ ~DistinctSubjects

\* the subject id of row n as either extractor normalizes it: trimmed (by the
\* BIDSConverter), the hyphens after a leading sub collapsed to one, sub-
\* prepended when it is absent
\* (after zero-padding a text of digits to three, by the BIDSConverter)
RowSubject(n) ==
    IF variant = "modular" THEN validate_subject_id(ScenarioId(n))
    ELSE LET collapsed == CollapseSubPrefix(ScenarioId(n).str)
         IN  IF StartsWith(collapsed, T_sub) THEN collapsed ELSE T_sub \o collapsed

\* <S>/ses-<V>/beh/<S>_ses-<V>_task-<lowercased T>_beh.tsv
BidsTsvPath(S, V, T) ==
    <<S, T_ses_ \o V, T_beh,
      S \o <<"_">> \o T_ses_ \o V \o <<"_">> \o T_task_ \o Lower(T) \o T_beh_tsv>>

\* the session value of a row as the BIDSConverter normalizes it: 01 for an
\* empty cell, a trimmed text of digits zero-padded to two, any other value
\* as its trimmed text
NormalizedSession(cell) ==
    IF cell = NaN THEN <<"0", "1">>
    ELSE LET s == Strip(PyStr(cell))
         IN  IF s # <<>> /\ (\A n \in 1..Len(s) : IsDigit(s[n])) /\ Len(s) < 2
             THEN <<"0">> \o s
             ELSE s

\* the extraction of the session file is over without an error
ScenarioExtracted == pc.phase \in {"cleanup", "done"}

\* the sidecar of the task is task-<lowercased T>_beh.json at the root
SidecarAtRoot ==
    pc.phase \in {"extract", "cleanup"} =>
        /\ <<T_task_ \o Lower(task_name) \o T_beh_json>> \in DOMAIN fs
        /\ IsJson(fs[<<T_task_ \o Lower(task_name) \o T_beh_json>>])

C13_WitnessLegacy ==
    /\ variant = "legacy"
    /\ ScenarioExtracted
    /\ Cardinality(TsvFiles(fs)) = 2

\* an id without its leading sub- prefixes, however many it carries
RECURSIVE WithoutSubPrefixes(_)
WithoutSubPrefixes(s) ==
    IF StartsWith(s, T_sub) THEN WithoutSubPrefixes(SubSeq(s, Len(T_sub) + 1, Len(s)))
    ELSE s

\* the subject folders of the per-subject TSV files
SubjectFolders == {p[1] : p \in TsvFiles(fs)}

\* C17: when the rows of a session file are extracted, the subject of a row is
\* sub-<token>: an id without the prefix has sub- prepended exactly once (a
\* text of digits zero-padded to three by the BIDSConverter), an id with the
\* prefix repeated has a single prefix.  Both extractors.
C17_Claim ==
    ScenarioExtracted =>
        /\ \A s \in SubjectFolders :
             StartsWith(s, T_sub) /\ ~StartsWith(SubSeq(s, Len(T_sub) + 1, Len(s)), T_sub)
        /\ \A n \in 1..Len(SessionFile.rows) :
             LET token == WithoutSubPrefixes(Strip(PyStr(ScenarioId(n))))
             IN  \/ T_sub \o token \in SubjectFolders
                 \/ variant = "modular" /\ T_sub \o ZFill(token, 3) \in SubjectFolders

\* a row whose id carries the prefix twice has been extracted
C17_Witness ==
    /\ ScenarioExtracted
    /\ \E n \in 1..Len(SessionFile.rows) : ScenarioId(n) = Str(T_sub \o T_sub \o T_01)
    /\ SubjectFolders # {}

\* what holds of the prefix: the subject of a row begins with sub-, and an id
\* that does not begin with sub- has it prepended once
C17_PrependedOnce ==
    ScenarioExtracted =>
        /\ \A s \in SubjectFolders : StartsWith(s, T_sub)
        /\ \A n \in 1..Len(SessionFile.rows) :
             LET id == Strip(PyStr(ScenarioId(n)))
             IN  ~StartsWith(id, T_sub) =>
                    \/ T_sub \o id \in SubjectFolders
                    \/ variant = "modular" /\ T_sub \o ZFill(id, 3) \in SubjectFolders

\* the TSV files the legacy extractor writes for task spreadsheet i and
\* session file j on their own, into an empty folder
PairTsvFiles(i, j) ==
    TsvFiles(create_bids_structure_and_copy_data(
                 <<>>, session_files[j], MainTaskName(task_files[i]), task_files[i].rows).fs)

\* a session file with the columns id and ses; a task spreadsheet of three sheets
WellFormedSession(j) ==
    /\ HasColumn(NormalizeColumns(session_files[j].columns), T_id)
    /\ HasColumn(NormalizeColumns(session_files[j].columns), T_ses)
WellFormedTask(i) == task_files[i].sheets >= 3

\* the run of main is over
RunOver == pc.phase \in {"done", "raised"}

\* C14: when a run of the legacy main is over, the TSV files of every task
\* spreadsheet of three sheets and every session file with id and ses have
\* been written, whatever the other session files and task spreadsheets of
\* the run are.
C14_Claim ==
    (variant = "legacy" /\ RunOver) =>
        \A i \in 1..Len(task_files), j \in 1..Len(session_files) :
            (WellFormedTask(i) /\ WellFormedSession(j)) => PairTsvFiles(i, j) \subseteq TsvFiles(fs)

\* a run of main has ended with the error of a session file without id or ses
\* before it came to a session file with both, whose TSV files are missing
C14_Witness ==
    /\ variant = "legacy"
    /\ pc.phase = "raised"
    /\ [file |-> pc.file, error |-> "ValueError"] \in raised
    /\ ~WellFormedSession(pc.file)
    /\ \E j \in 1..Len(session_files) :
          /\ j > pc.file
          /\ WellFormedSession(j)
          /\ PairTsvFiles(pc.task, j) # {}
          /\ ~(PairTsvFiles(pc.task, j) \subseteq TsvFiles(fs))

\* runs in which every session file has id and ses and every task spreadsheet
\* has three sheets come to their end and write the TSV files of every pair
C14_WellFormedRuns ==
    (/\ variant = "legacy"
     /\ \A i \in 1..Len(task_files) : WellFormedTask(i)
     /\ \A j \in 1..Len(session_files) : WellFormedSession(j)
     /\ RunOver) =>
        /\ pc.phase = "done"
        /\ \A i \in 1..Len(task_files), j \in 1..Len(session_files) :
              PairTsvFiles(i, j) \subseteq TsvFiles(fs)

\* the error of a task spreadsheet with fewer than three sheets
TooFewSheetsError == IF variant = "modular" THEN "ExcelValidationError" ELSE "ValueError"

\* C15: the conversion of a task spreadsheet with fewer than three sheets
\* ends with ExcelValidationError (BIDSConverter) or ValueError (behave.py) and
\* leaves every file of the output folder as it was; and a conversion by the
\* BIDSConverter that ends with any error has written nothing.
C15_Claim ==
    [][pc.phase = "parse" =>
         /\ task_files[pc.task].sheets < 3 =>
              /\ raised' = raised \cup {[file |-> 0, error |-> TooFewSheetsError]}
              /\ pc'.phase = "raised"
              /\ fs' = fs
         /\ (variant = "modular" /\ raised' # raised) => fs' = fs]_vars

\* the conversion of a spreadsheet of two sheets has ended with its error, and
\* the sidecar an earlier run wrote for that task is in the folder
C15_Witness ==
    /\ pc.phase = "raised"
    /\ task_files[pc.task].sheets < 3
    /\ [file |-> 0, error |-> TooFewSheetsError] \in raised
    /\ MainJsonFile(task_files[pc.task]) \in DOMAIN fs
    /\ fs[MainJsonFile(task_files[pc.task])] = File

\* the BIDSConverter has rejected the empty document of a spreadsheet of three
\* sheets
C15_WitnessValidation ==
    /\ variant = "modular"
    /\ pc.phase = "raised"
    /\ [file |-> 0, error |-> "ValidationError"] \in raised
    /\ task_files[pc.task].sheets >= 3

-----------------------------------------------------------------------------
(* Sanitized cells: the claims *)

\* a text without newline, carriage return, comma and tab, and without
\* leading, trailing and repeated whitespace
Sanitized(s) ==
    /\ \A n \in 1..Len(s) : s[n] \notin {"\n", "\r", ",", "\t"}
    /\ Strip(s) = s
    /\ \A n \in 1..Len(s) - 1 : ~(IsSpace(s[n]) /\ IsSpace(s[n + 1]))

\* the text cells of the per-subject TSV files
TsvTextCells ==
    UNION {{fs[p].cells[n].str : n \in {m \in 1..Len(fs[p].cells) : IsStr(fs[p].cells[m])}} :
              p \in TsvFiles(fs)}

\* C18: no text cell of a per-subject TSV holds a newline, a carriage return,
\* a comma or a tab, or leading, trailing or repeated whitespace.  Both
\* extractors.
C18_Claim == \A s \in TsvTextCells : Sanitized(s)

\* the legacy extractor has written a text cell
C18_Witness == variant = "legacy" /\ TsvTextCells # {}

\* what holds: the text cells the BIDSConverter writes are sanitized, and
\* those the legacy extractor writes hold no newline, carriage return or
\* comma and no leading or trailing whitespace
C18_PerVariant ==
    \A s \in TsvTextCells :
        /\ variant = "modular" => Sanitized(s)
        /\ variant = "legacy" =>
              /\ \A n \in 1..Len(s) : s[n] \notin {"\n", "\r", ","}
              /\ Strip(s) = s

\* the BIDSConverter has written a text cell
C18_WitnessModular == variant = "modular" /\ TsvTextCells # {}

-----------------------------------------------------------------------------
(* Identifier columns: the claims *)

\* the headers of the identifier columns, before and after their renaming
IdentifierColumns == {T_id, T_ses, T_subject_id, T_session}
HasIdentifierColumn(tsv) == \E n \in 1..Len(tsv.columns) : tsv.columns[n] \in IdentifierColumns

\* C19: no per-subject TSV holds an identifier column: the subject and session
\* columns are dropped from the row before it is written.  Every extractor of
\* the repository.
C19_Claim == \A p \in TsvFiles(fs) : ~HasIdentifierColumn(fs[p])

\* the extractor of read_session_data.py has written a row
C19_Witness == variant = "main" /\ TsvFiles(fs) # {}

\* what holds: the BIDSConverter and the extractor of behave.py write no
\* identifier column
C19_Dropped ==
    variant \in {"modular", "legacy"} => \A p \in TsvFiles(fs) : ~HasIdentifierColumn(fs[p])

\* each of the two has written a row
C19_WitnessModular == variant = "modular" /\ TsvFiles(fs) # {}
C19_WitnessLegacy == variant = "legacy" /\ TsvFiles(fs) # {}

-----------------------------------------------------------------------------
(* Demographics builder: the claims *)

\* the participant table as it is written, the variables the dictionary
\* lists (trimmed and lower-cased) and the headers of the demographics sheet
ParticipantsTable == fs[<<T_participants_tsv>>]
ListedVariables == [n \in 1..Len(df_variables) |-> Lower(Strip(df_variables[n].VariableName))]
ListsId == \E n \in 1..Len(ListedVariables) : ListedVariables[n] = T_id
DemoColumns == {Lower(Strip(df_demo.columns[n])) : n \in 1..Len(df_demo.columns)}
BuildOver == pc.phase \in {"done", "raised"}

\* C20: for a dictionary that lists id the build does not fail and the
\* participant table has exactly the columns participant_id and then the
\* other listed variables in dictionary order (so no unlisted column and no
\* id column), and each cell of a listed variable that the demographics sheet
\* does not have is n/a.  Both builders.
C20_Claim ==
    (BuildOver /\ ListsId) =>
        /\ raised = {}
        /\ <<T_participants_tsv>> \in DOMAIN fs
        /\ ParticipantsTable.columns =
              <<T_participant_id>> \o SelectSeq(ListedVariables, LAMBDA v : v # T_id)
        /\ \A n \in 2..Len(ParticipantsTable.columns) :
              ParticipantsTable.columns[n] \notin DemoColumns =>
                 \A r \in 1..Len(ParticipantsTable.rows) :
                    ParticipantsTable.rows[r][n] = Str(T_n_a)

\* the BIDSConverter has built the table of a sheet of two rows with an
\* unlisted column, for a dictionary that lists id after another variable and
\* a variable the sheet does not have
C20_Witness ==
    /\ variant = "modular"
    /\ BuildOver /\ ListsId
    /\ ListedVariables[1] # T_id
    /\ T_x \in DemoColumns /\ T_id \in DemoColumns
    /\ \E n \in 1..Len(ListedVariables) : ListedVariables[n] \notin DemoColumns
    /\ Len(df_demo.rows) = 2
    /\ Len(ParticipantsTable.rows) = 2

\* the same of the builder of behave.py
C20_WitnessLegacy ==
    /\ variant = "legacy"
    /\ BuildOver /\ ListsId
    /\ ListedVariables[1] # T_id
    /\ T_x \in DemoColumns /\ T_id \in DemoColumns
    /\ \E n \in 1..Len(ListedVariables) : ListedVariables[n] \notin DemoColumns
    /\ Len(df_demo.rows) = 2
    /\ Len(ParticipantsTable.rows) = 2

-----------------------------------------------------------------------------
(* Categorical-numeric columns: the claims *)

\* the columns of the written participant table the dictionary lists as
\* cat_num and the demographics sheet has, and the sheet's cells of column n
\* of the table as read_excel gave them
CatNumColumns ==
    {n \in 1..Len(ParticipantsTable.columns) :
        /\ dtype_map(NormalizedVariables(df_variables), ParticipantsTable.columns[n]) = T_cat_num
        /\ ParticipantsTable.columns[n] \in DemoColumns}
SheetColumn(n) ==
    Column(df_demo,
           CHOOSE j \in 1..Len(df_demo.columns) :
               Lower(Strip(df_demo.columns[j])) = ParticipantsTable.columns[n])
IsWholeNumber(v) == IsNum(v) \/ IsFloat(v)
NonNullAreWhole(column) ==
    \A r \in 1..Len(column) : isna(column[r]) \/ IsWholeNumber(column[r])
HasNull(column) == \E r \in 1..Len(column) : isna(column[r])
HasWhole(column) == \E r \in 1..Len(column) : IsWholeNumber(column[r])
\* a nullable integer as it is written, and a value of a column of strings
AsInteger(v) ==
    IF isna(v) THEN Str(T_n_a)
    ELSE Str(Decimal(IF IsNum(v) THEN v.num ELSE v.float))
AsString(v) == IF isna(v) THEN Str(T_n_a) ELSE Str(PyStr(v))
BuildWritten == pc.phase = "done" /\ <<T_participants_tsv>> \in DOMAIN fs

\* C21: a cat_num column whose non-null values are all whole numbers is
\* written as nullable integers (7 as `7`, a null cell as n/a), also when
\* some of its cells are null; every other cat_num column is written as the
\* strings of its values.  Both builders.
C21_Claim ==
    BuildWritten =>
        \A n \in CatNumColumns : \A r \in 1..Len(ParticipantsTable.rows) :
            ParticipantsTable.rows[r][n] =
                IF NonNullAreWhole(SheetColumn(n))
                THEN AsInteger(SheetColumn(n)[r])
                ELSE AsString(SheetColumn(n)[r])

\* the BIDSConverter has written a cat_num column of a whole number and a
\* null cell
C21_Witness ==
    /\ variant = "modular"
    /\ BuildWritten
    /\ \E n \in CatNumColumns :
          /\ NonNullAreWhole(SheetColumn(n))
          /\ HasNull(SheetColumn(n)) /\ HasWhole(SheetColumn(n))

\* a cat_num column of whole numbers without a null cell is written as
\* integers by both builders
C21_WithoutNull ==
    BuildWritten =>
        \A n \in CatNumColumns : \A r \in 1..Len(ParticipantsTable.rows) :
            (NonNullAreWhole(SheetColumn(n)) /\ ~HasNull(SheetColumn(n))) =>
                ParticipantsTable.rows[r][n] = AsInteger(SheetColumn(n)[r])

\* with a null cell the BIDSConverter writes the strings of the floats
\* (`30.0`), behave.py the integers
C21_WithNull ==
    BuildWritten =>
        \A n \in CatNumColumns : \A r \in 1..Len(ParticipantsTable.rows) :
            (NonNullAreWhole(SheetColumn(n)) /\ HasNull(SheetColumn(n))) =>
                ParticipantsTable.rows[r][n] =
                    IF variant = "modular" THEN AsString(SheetColumn(n)[r])
                    ELSE AsInteger(SheetColumn(n)[r])

\* behave.py has written a cat_num column of a whole number and a null cell
C21_WitnessLegacy ==
    /\ variant = "legacy"
    /\ BuildWritten
    /\ \E n \in CatNumColumns :
          /\ NonNullAreWhole(SheetColumn(n))
          /\ HasNull(SheetColumn(n)) /\ HasWhole(SheetColumn(n))

-----------------------------------------------------------------------------
(* Dataset description: the claims *)

\* the written description, the rows of the sheet as loaded (none for a sheet
\* that cannot be read or has one column) and the trimmed values the sheet
\* gives under a key
DatasetDescription == fs[<<T_dataset_description_json>>].json
LoadedRows ==
    IF df_description = None THEN <<>>
    ELSE IF Len(df_description.columns) < 2 THEN <<>>
    ELSE df_description.rows
GivenValues(field) ==
    {Strip(PyStr(LoadedRows[n][2])) :
        n \in {m \in 1..Len(LoadedRows) : Strip(PyStr(LoadedRows[m][1])) = field}}
\* digits.digits.digits
IsVersionText(s) ==
    /\ Len(Split(s, ".")) = 3
    /\ \A n \in 1..3 :
          /\ Split(s, ".")[n] # <<>>
          /\ \A m \in 1..Len(Split(s, ".")[n]) : IsDigit(Split(s, ".")[n][m])
ArrayKeys(doc) ==
    {k \in DOMAIN doc : Lower(k) \in {Lower(T_Authors), Lower(T_ReferencesAndLinks),
                                      Lower(T_Funding)}}

C22_WitnessUnreadable ==
    /\ variant = "modular" /\ BuildOver
    /\ df_description = None
    /\ DatasetDescription[T_Name] = Str(T_BehaveConvertedDataset)

-----------------------------------------------------------------------------
(* Task metadata: the claims *)

\* the rows of sheet 2 followed by the rows of sheet 3, and those of them
\* that have a key and a description
MetaSeq == df_meta[1] \o df_meta[2]
ValidMeta == {n \in 1..Len(MetaSeq) : MetaSeq[n].key # NaN /\ MetaSeq[n].description # NaN}
ValidMetaKeys == {PyStr(MetaSeq[n].key) : n \in ValidMeta}
LastMeta(k) ==
    CHOOSE n \in ValidMeta :
        /\ PyStr(MetaSeq[n].key) = k
        /\ \A m \in ValidMeta : PyStr(MetaSeq[m].key) = k => m <= n

\* C16: the sidecar holds, directly under each key of a metadata row that has
\* a key and a description, the description of the last such row in the order
\* sheet 2, sheet 3 (as text by the BIDSConverter, as it is by behave.py); the
\* other rows add no key.  Both parsers.
C16_Claim ==
    /\ (sidecar # Unset /\ IsWritten(sidecar)) =>
         /\ DOMAIN sidecar.written = DOMAIN main_json \cup ValidMetaKeys
         /\ \A k \in ValidMetaKeys :
              sidecar.written[k] = Str(PyStr(MetaSeq[LastMeta(k)].description))
    /\ legacy_sidecar # Unset =>
         /\ DOMAIN legacy_sidecar.written =
              {ExpectedKey(df_main[n]) : n \in LegacyStored(df_main)} \cup ValidMetaKeys
         /\ \A k \in ValidMetaKeys :
              legacy_sidecar.written[k] = MetaSeq[LastMeta(k)].description

\* sheet 2 and sheet 3 give one key different values, a row has no key, and
\* both parsers have written the sidecar
C16_Witness ==
    /\ sidecar # Unset /\ IsWritten(sidecar)
    /\ legacy_sidecar # Unset
    /\ \E m \in 1..Len(df_meta[1]), n \in 1..Len(df_meta[2]) :
          /\ df_meta[1][m].key = df_meta[2][n].key
          /\ df_meta[1][m].key # NaN
          /\ df_meta[1][m].description # df_meta[2][n].description
          /\ NaN \notin {df_meta[1][m].description, df_meta[2][n].description}
    /\ \E n \in 1..Len(MetaSeq) : MetaSeq[n].key = NaN
    /\ ValidMetaKeys # {}

-----------------------------------------------------------------------------
(* A full run: the claims *)

\* the sidecars and the TSV files of a tree
WrittenFiles(tree) == {p \in DOMAIN tree : IsJson(tree[p]) \/ IsTsv(tree[p])}

\* a step of the orphan cleanup, a step of the validator
CleanupStep == pc'.runs = pc.runs + 1
ValidatorStep == pc.phase = "validate" /\ pc'.phase # "validate"

\* every task spreadsheet has its sidecar and has gone through every session
\* file
EveryTaskExtracted ==
    /\ pc.phase = "cleanup"
    /\ pc.task = Len(task_files)
    /\ pc.file = Len(session_files)

\* the order of a full run: the cleanup starts once, after the last
\* extraction of the last task; nothing is written once it has started; the
\* validator follows the one cleanup
RunOrder ==
    /\ CleanupStep => pc.runs = 0 /\ EveryTaskExtracted
    /\ pc.runs > 0 =>
         \A p \in WrittenFiles(fs') : p \in DOMAIN fs /\ fs[p] = fs'[p]
    /\ ValidatorStep => pc.runs = 1

\* C23 as stated: in a full run of main of behave.py and of main of main.py
\* the orphan cleanup is invoked exactly once, only after the sidecar of every
\* task has been written and every (task, session file) extraction has
\* completed, and before the validator is invoked; no sidecar and no TSV file
\* is written after the cleanup has started.
C23_Claim ==
    /\ [][RunOrder]_vars
    /\ [](pc.phase = "done" => pc.runs = 1)

\* main.py, two task spreadsheets: the cleanup and the validator have run
\* for the first and the second is parsed next
C23_Witness ==
    /\ variant = "main"
    /\ Len(task_files) = 2
    /\ pc.phase = "parse" /\ pc.task = 2
    /\ pc.runs = 1

\* main of behave.py keeps the order
C23_BehaveMain == [][variant = "legacy" => RunOrder]_vars

\* main of behave.py has invoked the cleanup once when the run is over
C23_BehaveMainOnce == variant = "legacy" /\ pc.phase = "done" => pc.runs = 1

\* main of main.py on one task spreadsheet keeps the order
C23_MainOneTask == [][variant = "main" /\ Len(task_files) = 1 => RunOrder]_vars

\* main of main.py on two task spreadsheets has invoked the cleanup twice
\* when the run is over
C23_MainTwice ==
    variant = "main" /\ pc.phase = "done" => pc.runs = Len(task_files)

\* a complete run of main of behave.py over two task spreadsheets
C23_WitnessBehaveMain ==
    /\ variant = "legacy"
    /\ Len(task_files) = 2
    /\ pc.phase = "done"
    /\ WrittenFiles(fs) # {}

-----------------------------------------------------------------------------
(* Anonymization: the claims *)

\* the main sheet with the cells ds in its itemdescription column
WithDescriptions(rows, ds) ==
    [n \in 1..Len(rows) |-> [rows[n] EXCEPT !.itemdescription = ds[n]]]

\* the cells an itemdescription column can hold
ItemDescriptions == DescriptionCells \cup {Str(T_q1), Str(T_q2)}

\* the main sheets that differ from df_main in their itemdescription cells only
OtherDescriptions ==
    {WithDescriptions(df_main, ds) : ds \in [1..Len(df_main) -> ItemDescriptions]}

\* row n is the row the sidecar has the entry of: it is not skipped, no later
\* row has its key and no metadata row has replaced it
ModularEntryOf(n) ==
    /\ ~ItemSkipped(df_main[n])
    /\ IsWritten(sidecar)
    /\ CleanKey(_get_item_key(df_main[n]).str) \in DOMAIN sidecar.written
    /\ sidecar.written[CleanKey(_get_item_key(df_main[n]).str)]
         = main_json[CleanKey(_get_item_key(df_main[n]).str)]
    /\ \A m \in (n + 1)..Len(df_main) :
         ItemSkipped(df_main[m])
         \/ CleanKey(_get_item_key(df_main[m]).str) # CleanKey(_get_item_key(df_main[n]).str)

LegacySkipped(row) == StartsWith(Lower(LegacyItemKey(row)), T_itemname)

LegacyEntryOf(n) ==
    /\ ~LegacySkipped(df_main[n])
    /\ legacy_sidecar # Unset
    /\ \A m \in (n + 1)..Len(df_main) :
         LegacySkipped(df_main[m])
         \/ CleanKey(LegacyItemKey(df_main[m])) # CleanKey(LegacyItemKey(df_main[n]))
    /\ \A m \in 1..Len(df_meta[1] \o df_meta[2]) :
         LET row == (df_meta[1] \o df_meta[2])[m]
         IN  ~(notna(row.key) /\ notna(row.description)
               /\ row.key.str = CleanKey(LegacyItemKey(df_main[n])))

\* the placeholder of row n, counted from 1
Placeholder(n) == Str(T_Question \o Decimal(n))

\* the Description of every item of the BIDSConverter's sidecar is the
\* placeholder of its row
ModularPlaceholders ==
    \A n \in 1..Len(df_main) :
        ModularEntryOf(n) =>
            sidecar.written[CleanKey(_get_item_key(df_main[n]).str)]["Description"]
                = Placeholder(n)

\* the same of the sidecar of behave.py
LegacyPlaceholders ==
    \A n \in 1..Len(df_main) :
        LegacyEntryOf(n) =>
            legacy_sidecar.written[CleanKey(LegacyItemKey(df_main[n]))]["Description"]
                = Placeholder(n)

\* the sidecars are those of every main sheet that differs in its
\* itemdescription cells only
IndependentOfDescriptions ==
    /\ sidecar # Unset =>
         \A rows \in OtherDescriptions :
             convert_excel_to_json(rows, df_meta, anonymize) = sidecar
    /\ legacy_sidecar # Unset =>
         \A rows \in OtherDescriptions :
             convert_excel_to_json_updated(rows, df_meta, anonymize) = legacy_sidecar

\* C24 as stated: when anonymization is requested, the Description of every
\* item of the sidecar is `Question <k>` with k the 1-based position of the
\* item's row in the items sheet, and two task spreadsheets that differ only in
\* their itemdescription cells have identical sidecars.
C24_Claim ==
    anonymize => ModularPlaceholders /\ LegacyPlaceholders /\ IndependentOfDescriptions

\* an anonymized sidecar of behave.py with the entry of the first row
C24_Witness ==
    /\ anonymize
    /\ Len(df_main) = 2
    /\ LegacyEntryOf(1) /\ LegacyEntryOf(2)
    /\ df_main[1].itemdescription # df_main[2].itemdescription

\* the BIDSConverter numbers the placeholders from 1
C24_Modular == anonymize => ModularPlaceholders

\* an anonymized sidecar does not depend on the itemdescription cells
C24_Independent == anonymize => IndependentOfDescriptions

\* behave.py numbers the placeholders from 0
C24_LegacyFromZero ==
    anonymize =>
        \A n \in 1..Len(df_main) :
            LegacyEntryOf(n) =>
                legacy_sidecar.written[CleanKey(LegacyItemKey(df_main[n]))]["Description"]
                    = Str(T_Question \o Decimal(n - 1))

\* an anonymized sidecar of the BIDSConverter with the entry of the second of
\* two rows
C24_WitnessModular ==
    /\ anonymize
    /\ Len(df_main) = 2
    /\ ModularEntryOf(2)
    /\ sidecar.written[CleanKey(_get_item_key(df_main[2]).str)]["Description"] = Placeholder(2)
    /\ df_main[1].itemdescription # df_main[2].itemdescription

\* without anonymization the sidecar depends on the itemdescription cells
C24_WitnessDependent ==
    /\ ~anonymize
    /\ IsWritten(sidecar)
    /\ ~IndependentOfDescriptions

-----------------------------------------------------------------------------
(* Skipped item rows: the claims *)

\* the rule as stated: the cell is missing, blank, or the header token in any case
SkipRule(row) ==
    \/ isna(row.itemname)
    \/ TrimmedName(row) = <<>>
    \/ Lower(TrimmedName(row)) = T_itemname

\* the name begins with the header token and is longer
BeginsWithToken(row) ==
    /\ notna(row.itemname)
    /\ StartsWith(Lower(TrimmedName(row)), T_itemname)
    /\ Lower(TrimmedName(row)) # T_itemname

\* the sidecar keys of the rows the rule keeps
KeptKeys == {CleanKey(TrimmedName(df_main[n])) : n \in {m \in 1..Len(df_main) : ~SkipRule(df_main[m])}}

\* C25 as stated: the task definition parser skips an item row exactly when its
\* itemname cell is missing or blank or is case-insensitively equal to the
\* header token `itemname`; every other row, including one whose name merely
\* begins with that token, produces a sidecar entry.
C25_Claim ==
    /\ sidecar # Unset => DOMAIN main_json = KeptKeys
    /\ legacy_sidecar # Unset =>
         /\ KeptKeys \subseteq DOMAIN legacy_sidecar.written
         /\ DOMAIN legacy_sidecar.written \subseteq KeptKeys \cup MetaKeys(df_meta)

\* a written sidecar of a sheet with a row whose name begins with the token
C25_Witness ==
    /\ IsWritten(sidecar)
    /\ \E n \in 1..Len(df_main) :
         /\ BeginsWithToken(df_main[n])
         /\ CleanKey(TrimmedName(df_main[n])) \notin DOMAIN sidecar.written

\* the rule of the BIDSConverter: a name that begins with the token in any
\* case, and the name `Unknown Item`, are skipped as well
ModularSkipRule(row) ==
    \/ SkipRule(row)
    \/ BeginsWithToken(row)
    \/ TrimmedName(row) = T_UnknownItem

C25_Modular ==
    sidecar # Unset =>
        DOMAIN main_json =
            {CleanKey(TrimmedName(df_main[n])) :
                n \in {m \in 1..Len(df_main) : ~ModularSkipRule(df_main[m])}}

\* the rule of behave.py: a name that begins with the token is skipped; a
\* missing name has the entry `Unknown Item` and a blank name the entry ``
C25_Legacy ==
    legacy_sidecar # Unset =>
        LET kept == {n \in 1..Len(df_main) :
                        isna(df_main[n].itemname)
                        \/ ~StartsWith(Lower(TrimmedName(df_main[n])), T_itemname)}
            keys == {IF isna(df_main[n].itemname) THEN T_UnknownItem
                     ELSE CleanKey(TrimmedName(df_main[n])) : n \in kept}
        IN  /\ keys \subseteq DOMAIN legacy_sidecar.written
            /\ DOMAIN legacy_sidecar.written \subseteq keys \cup MetaKeys(df_meta)

\* behave.py has written an entry for a row without a name
C25_WitnessLegacy ==
    /\ legacy_sidecar # Unset
    /\ \E n \in 1..Len(df_main) : isna(df_main[n].itemname)
    /\ T_UnknownItem \in DOMAIN legacy_sidecar.written
    /\ T_UnknownItem \notin MetaKeys(df_meta)

-----------------------------------------------------------------------------
(* TSV columns: the claims *)

\* the items the task sheet declares, normalized: the rows with a name that
\* does not contain `example` in any letter case
DeclaredItems ==
    {normalize_item_name(Str(PyStr(df_main[n].itemname))) :
        n \in {m \in 1..Len(df_main) :
                  /\ notna(df_main[m].itemname)
                  /\ ~Contains(Lower(PyStr(df_main[m].itemname)), T_example)}}

\* the columns of the TSV files of the tree
TsvColumns == UNION {{fs[p].columns[n] : n \in 1..Len(fs[p].columns)} : p \in TsvFiles(fs)}

\* a column is a normalized session column, contains the upper-cased task
\* name and is a declared item
ColumnOfTask(col) ==
    /\ \E n \in 1..Len(SessionColumns) : SessionColumns[n] = col
    /\ Contains(col, Upper(task_name))
    /\ col \in DeclaredItems

C26_Legacy == variant = "legacy" => \A col \in TsvColumns : ColumnOfTask(col)

\* the statement for the extractor of read_session_data.py, which leaves
\* subject_id and session in the TSV file and does not keep it
C26_ReadSessionData == variant = "main" => \A col \in TsvColumns : ColumnOfTask(col)

-----------------------------------------------------------------------------
(* Metadata over items: the claims *)

\* the keys that are the sidecar key of an item and the key of a metadata row
\* with a value
SharedKeys == DOMAIN main_json \cap ValidMetaKeys

\* the fields of an item entry
EntryFields == {"Description", "Levels", "Units"}

\* C27: BIDSConverter.convert_excel_to_json applies the metadata of sheets 2
\* and 3 after the item entries: under a key that is the sidecar key of an
\* item and the key of a metadata row, the sidecar holds the metadata scalar
\* and not the entry of the item, whose Description, Levels and Units are
\* absent.
C27_Claim ==
    (main_json # Unset /\ IsWritten(sidecar)) =>
        \A k \in SharedKeys :
            /\ IsStr(sidecar.written[k])
            /\ sidecar.written[k] = Str(PyStr(MetaSeq[LastMeta(k)].description))
            /\ DOMAIN sidecar.written[k] \cap EntryFields = {}
            /\ DOMAIN main_json[k] \cap EntryFields # {}

\* a sidecar of a sheet with the item a-b and a metadata row with the key ab
C27_Witness ==
    /\ main_json # Unset /\ IsWritten(sidecar)
    /\ Len(df_main) = 1
    /\ SharedKeys = {<<"a", "b">>}
    /\ "Description" \in DOMAIN main_json[<<"a", "b">>]
    /\ sidecar.written[<<"a", "b">>] = Str(<<"5">>)

\* behave.convert_excel_to_json_updated: the metadata loops follow the loop
\* over the items, and the value is stored as it is
C27_Legacy ==
    legacy_sidecar # Unset =>
        \A k \in ValidMetaKeys :
            legacy_sidecar.written[k] = MetaSeq[LastMeta(k)].description

\* the sidecar of behave.py with the number 5 under the key of the item a-b
C27_WitnessLegacy ==
    /\ legacy_sidecar # Unset
    /\ Len(df_main) = 1
    /\ <<"a", "b">> \in ValidMetaKeys
    /\ legacy_sidecar.written[<<"a", "b">>] = Num(5)

-----------------------------------------------------------------------------
(* One TSV file per subject and session: the claims *)

\* the pair of identifiers the BIDSConverter files row n under
RowPair(n) ==
    <<validate_subject_id(SessionFile.rows[n][1]), validate_session_id(SessionFile.rows[n][2])>>

\* the last row that has the pair of row n
LastOfPair(n) ==
    CHOOSE m \in 1..Len(SessionFile.rows) :
        /\ RowPair(m) = RowPair(n)
        /\ \A o \in 1..Len(SessionFile.rows) : RowPair(o) = RowPair(n) => o <= m

\* the TSV file of a pair
PairPath(pair) ==
    <<pair[1], T_ses_ \o pair[2], T_beh,
      pair[1] \o <<"_">> \o T_ses_ \o pair[2] \o <<"_">> \o T_task_ \o Lower(task_name) \o T_beh_tsv>>

\* the extraction of the session file has returned and was not skipped
Extracted == pc.phase = "returned" /\ ~NoMatchedDeclaredColumn

\* C28: every TSV file the BIDSConverter writes holds one data row, and an
\* extraction that is not skipped leaves as many TSV files as there are
\* distinct pairs (normalized subject id, normalized session id) among the rows
\* of the session file: rows with the same pair are written to the same path
\* and the file holds the later row only.
C28_Claim ==
    (variant = "modular" /\ Extracted) =>
        /\ Cardinality(TsvFiles(fs)) =
               Cardinality({RowPair(n) : n \in 1..Len(SessionFile.rows)})
        /\ \A p \in TsvFiles(fs) :
               /\ Len(fs[p].columns) >= 1
               /\ Len(fs[p].cells) = Len(fs[p].columns)
        /\ \A n \in 1..Len(SessionFile.rows) :
               /\ PairPath(RowPair(n)) \in TsvFiles(fs)
               /\ \A j \in 1..Len(fs[PairPath(RowPair(n))].cells) :
                      fs[PairPath(RowPair(n))].cells[j] = Num(LastOfPair(n))

\* two rows with different id cells and the same pair: one TSV file, with the
\* cells of the second row
C28_Witness ==
    /\ variant = "modular" /\ Extracted
    /\ Len(SessionFile.rows) = 2
    /\ SessionFile.rows[1][1] # SessionFile.rows[2][1]
    /\ RowPair(1) = RowPair(2)
    /\ Cardinality(TsvFiles(fs)) = 1
    /\ \E p \in TsvFiles(fs) : fs[p].cells[1] = Num(2)

\* two rows with different pairs: two TSV files
C28_WitnessTwoFiles ==
    /\ variant = "modular" /\ Extracted
    /\ Len(SessionFile.rows) = 2
    /\ RowPair(1) # RowPair(2)
    /\ Cardinality(TsvFiles(fs)) = 2

\* the extractor of behave.py files a row under the session cell as it stands
\* and under its id with the prefix sub-, without padding
LegacyRowPair(n) ==
    <<IF StartsWith(CollapseSubPrefix(PyStr(SessionFile.rows[n][1])), T_sub)
      THEN CollapseSubPrefix(PyStr(SessionFile.rows[n][1]))
      ELSE T_sub \o CollapseSubPrefix(PyStr(SessionFile.rows[n][1])),
      PyStr(SessionFile.rows[n][2])>>

\* the count of TSV files of behave.py is the count of its pairs
C28_Legacy ==
    (variant = "legacy" /\ Extracted) =>
        /\ Cardinality(TsvFiles(fs)) =
               Cardinality({LegacyRowPair(n) : n \in 1..Len(SessionFile.rows)})
        /\ \A p \in TsvFiles(fs) : Len(fs[p].cells) = Len(fs[p].columns)
        /\ \A n \in 1..Len(SessionFile.rows) :
               \E p \in TsvFiles(fs) : p[1] = LegacyRowPair(n)[1] /\ p[2] = T_ses_ \o LegacyRowPair(n)[2]

\* behave.py has written two TSV files for two rows the BIDSConverter files
\* under one pair
C28_WitnessLegacy ==
    /\ variant = "legacy" /\ Extracted
    /\ Len(SessionFile.rows) = 2
    /\ RowPair(1) = RowPair(2)
    /\ Cardinality(TsvFiles(fs)) = 2

-----------------------------------------------------------------------------
(* What the cleanup leaves alone: the claims *)

\* a file named task-*_beh.json directly under the output root
RootTaskJson(tree, p) ==
    /\ Len(p) = 1
    /\ tree[p] # Dir
    /\ StartsWith(p[1], T_task_)
    /\ EndsWith(p[1], T_beh_json)

\* C29: a cleanup run deletes nothing except files named task-*_beh.json that
\* lie directly under the output root: every TSV file, participants.tsv,
\* participants.json, dataset_description.json, every directory and every JSON
\* file below the root is left as it was.  Both cleanups.
C29_Claim ==
    [][/\ \A p \in DOMAIN fs : p \notin DOMAIN fs' => RootTaskJson(fs, p)
       /\ \A p \in DOMAIN fs' : p \in DOMAIN fs /\ fs'[p] = fs[p]]_vars

\* a cleanup run has deleted a sidecar from a tree that holds the files of the
\* participants, the dataset description, a TSV file and a sidecar below the
\* root, and they are still there
C29_Witness ==
    /\ pc.runs >= 1
    /\ removed # {}
    /\ {<<T_participants_tsv>>, <<T_participants_json>>, <<T_dataset_description_json>>,
        <<T_sub01, T_ses1, T_beh, SidecarName(Lower(T_AD))>>,
        TsvPath(Lower(T_ADS))} \subseteq DOMAIN fs
    /\ <<SidecarName(Lower(T_AD))>> \in removed

-----------------------------------------------------------------------------
(* Normalizing twice: the claims *)

\* C30: normalize_item_name is idempotent: the result of a second application
\* to a normalized label is that label, so the session headers normalized
\* twice are the headers normalized once, and the column names subject_id and
\* session are left as they are.
C30_Claim ==
    normalized # Unset =>
        /\ normalize_item_name(normalized) = normalized.str
        /\ normalize_item_name(Str(T_subject_id)) = T_subject_id
        /\ normalize_item_name(Str(T_session)) = T_session

\* a label the first application has rewritten: its letters are in upper
\* case and its separator is gone
C30_Witness ==
    /\ normalized # Unset
    /\ IsStr(item_name)
    /\ normalized.str # item_name.str
    /\ Len(normalized.str) < Len(item_name.str)
    /\ \E n \in 1..Len(item_name.str) : item_name.str[n] \in {"-", "_"}

\* the headers of behave.py after one normalization and the renaming
RenamedOnce(columns) ==
    [n \in 1..Len(columns) |->
        LET col == normalize_item_name(Str(columns[n]))
        IN  IF col = T_id THEN T_subject_id
            ELSE IF col = T_ses THEN T_session
            ELSE col]

\* the second normalization of the session headers changes none of them
C30_SessionHeaders ==
    LegacyRenamedColumns(SessionFile.columns) = RenamedOnce(SessionFile.columns)

\* a session file with the columns id and ses and a header the normalization
\* rewrites
C30_WitnessHeaders ==
    /\ variant = "legacy"
    /\ pc.phase = "returned"
    /\ HasColumn(RenamedOnce(SessionFile.columns), T_subject_id)
    /\ HasColumn(RenamedOnce(SessionFile.columns), T_session)
    /\ \E n \in 1..Len(SessionFile.columns) :
         RenamedOnce(SessionFile.columns)[n] \notin {SessionFile.columns[n], T_subject_id, T_session}
    /\ TsvFiles(fs) # {}

-----------------------------------------------------------------------------
(* Specifications *)

\* normalize_item_name on every label
NameInit ==
    /\ item_name \in Labels
    /\ normalized = Unset
    /\ id_value = None /\ participant_id = Unset /\ legacy_id = Unset
    /\ df_main = <<>> /\ df_meta = <<<<>>, <<>>>> /\ anonymize = FALSE
    /\ main_json = Unset /\ sidecar = Unset /\ legacy_sidecar = Unset
    /\ variant = "modular" /\ task_name = <<>> /\ session_files = <<>> /\ task_files = <<>>
    /\ fs = <<>> /\ removed = {} /\ raised = {}
    /\ df_demo = Table(<<>>, <<>>) /\ df_variables = <<>>
    /\ df_description = Table(<<>>, <<>>)
    /\ pc = [phase |-> "idle", file |-> 1, task |-> 1, runs |-> 0]

NameNext == NormalizeItemName /\ UNCHANGED <<idVars, taskVars, runVars, demoVars>>
SpecName == NameInit /\ [][NameNext]_vars

\* the two id normalizers on every id value
IdInit ==
    /\ item_name = Str(<<>>) /\ normalized = Unset
    /\ id_value \in IdValues
    /\ participant_id = Unset
    /\ legacy_id = Unset
    /\ df_main = <<>> /\ df_meta = <<<<>>, <<>>>> /\ anonymize = FALSE
    /\ main_json = Unset /\ sidecar = Unset /\ legacy_sidecar = Unset
    /\ variant = "modular" /\ task_name = <<>> /\ session_files = <<>> /\ task_files = <<>>
    /\ fs = <<>> /\ removed = {} /\ raised = {}
    /\ df_demo = Table(<<>>, <<>>) /\ df_variables = <<>>
    /\ df_description = Table(<<>>, <<>>)
    /\ pc = [phase |-> "idle", file |-> 1, task |-> 1, runs |-> 0]

IdNext ==
    \/ ValidateSubjectId /\ UNCHANGED <<nameVars, taskVars, runVars, demoVars>>
    \/ NormalizeId /\ UNCHANGED <<nameVars, taskVars, runVars, demoVars>>
SpecId == IdInit /\ [][IdNext]_vars

\* one item with MaxLevels pairs of level columns, every cell free
ItemInit ==
    /\ item_name = Str(<<>>) /\ normalized = Unset
    /\ id_value = None /\ participant_id = Unset /\ legacy_id = Unset
    /\ \E likert \in LikertCells :
       \E levels \in [1..MaxLevels -> LevelCells] :
       \E leveldescription \in [1..MaxLevels -> DescriptionCells] :
           df_main = <<ItemRow(Str(T_q1), Str(T_q2), likert, levels, leveldescription)>>
    /\ df_meta = <<<<>>, <<>>>>
    /\ anonymize = FALSE
    /\ main_json = Unset /\ sidecar = Unset /\ legacy_sidecar = Unset
    /\ variant = "modular" /\ task_name = <<>> /\ session_files = <<>> /\ task_files = <<>>
    /\ fs = <<>> /\ removed = {} /\ raised = {}
    /\ df_demo = Table(<<>>, <<>>) /\ df_variables = <<>>
    /\ df_description = Table(<<>>, <<>>)
    /\ pc = [phase |-> "idle", file |-> 1, task |-> 1, runs |-> 0]

\* main sheets of up to MaxRows rows
SheetInit ==
    /\ item_name = Str(<<>>) /\ normalized = Unset
    /\ id_value = None /\ participant_id = Unset /\ legacy_id = Unset
    /\ df_main \in SeqsUpTo(SheetRows, MaxRows)
    /\ df_meta \in SheetMetadata
    /\ anonymize \in BOOLEAN
    /\ main_json = Unset /\ sidecar = Unset /\ legacy_sidecar = Unset
    /\ variant = "modular" /\ task_name = <<>> /\ session_files = <<>> /\ task_files = <<>>
    /\ fs = <<>> /\ removed = {} /\ raised = {}
    /\ df_demo = Table(<<>>, <<>>) /\ df_variables = <<>>
    /\ df_description = Table(<<>>, <<>>)
    /\ pc = [phase |-> "idle", file |-> 1, task |-> 1, runs |-> 0]

TaskNext ==
    \/ ConvertExcelToJson /\ UNCHANGED <<nameVars, idVars, runVars, demoVars>>
    \/ ConvertExcelToJsonUpdated /\ UNCHANGED <<nameVars, idVars, runVars, demoVars>>

SpecItem == ItemInit /\ [][TaskNext]_vars
SpecSheet == SheetInit /\ [][TaskNext]_vars

\* one session file and one task, handed to either extractor, into an empty tree
ExtractInit ==
    /\ item_name = Str(<<>>) /\ normalized = Unset
    /\ id_value = None /\ participant_id = Unset /\ legacy_id = Unset
    /\ \E task \in Tasks : task_name = task.name /\ df_main = task.rows
    /\ df_meta = <<<<>>, <<>>>> /\ anonymize = FALSE
    /\ main_json = Unset /\ sidecar = Unset /\ legacy_sidecar = Unset
    /\ variant \in {"modular", "legacy", "main"}
    /\ \E table \in SessionTables : session_files = <<table>>
    /\ task_files = <<>>
    /\ fs = <<>> /\ removed = {} /\ raised = {}
    /\ df_demo = Table(<<>>, <<>>) /\ df_variables = <<>>
    /\ df_description = Table(<<>>, <<>>)
    /\ pc = [phase |-> "extract", file |-> 1, task |-> 1, runs |-> 0]

ExtractNext ==
    \/ CreateBidsStructure /\ UNCHANGED <<nameVars, idVars, taskVars, demoVars>>
    \/ CreateBidsStructureAndCopyData /\ UNCHANGED <<nameVars, idVars, taskVars, demoVars>>
    \/ ReadSessionData /\ UNCHANGED <<nameVars, idVars, taskVars, demoVars>>
SpecExtract == ExtractInit /\ [][ExtractNext]_vars

\* the orphan cleanup, run up to MaxCleanupRuns times on every output tree
CleanupInit ==
    /\ item_name = Str(<<>>) /\ normalized = Unset
    /\ id_value = None /\ participant_id = Unset /\ legacy_id = Unset
    /\ df_main = <<>> /\ df_meta = <<<<>>, <<>>>> /\ anonymize = FALSE
    /\ main_json = Unset /\ sidecar = Unset /\ legacy_sidecar = Unset
    /\ variant \in {"modular", "legacy"}
    /\ task_name = <<>> /\ session_files = <<>> /\ task_files = <<>>
    /\ \E files \in SUBSET OutputFiles : fs = TreeOf(files)
    /\ removed = {} /\ raised = {}
    /\ df_demo = Table(<<>>, <<>>) /\ df_variables = <<>>
    /\ df_description = Table(<<>>, <<>>)
    /\ pc = [phase |-> "cleanup", file |-> 1, task |-> 1, runs |-> 0]

CleanupNext ==
    \/ CleanupUnusedJsonFiles /\ UNCHANGED <<nameVars, idVars, taskVars, demoVars>>
    \/ CleanupUnusedTaskJson /\ UNCHANGED <<nameVars, idVars, taskVars, demoVars>>
SpecCleanup == CleanupInit /\ [][CleanupNext]_vars

\* the scenario of PHQ9.xlsx: one task spreadsheet, one session file, an
\* empty output folder, the calls of either variant
ScenarioInit ==
    /\ item_name = Str(<<>>) /\ normalized = Unset
    /\ id_value = None /\ participant_id = Unset /\ legacy_id = Unset
    /\ df_main = <<>> /\ df_meta = <<<<>>, <<>>>> /\ anonymize = FALSE
    /\ main_json = Unset /\ sidecar = Unset /\ legacy_sidecar = Unset
    /\ variant \in {"modular", "legacy"}
    /\ task_name = <<>>
    /\ \E table \in ScenarioTables : session_files = <<table>>
    /\ \E name \in {T_PHQ9, Lower(T_PHQ9)} : task_files = <<PHQ9File(name)>>
    /\ fs = <<>> /\ removed = {} /\ raised = {}
    /\ df_demo = Table(<<>>, <<>>) /\ df_variables = <<>>
    /\ df_description = Table(<<>>, <<>>)
    /\ pc = [phase |-> "parse", file |-> 1, task |-> 1, runs |-> 0]

RunNext ==
    \/ MainConvertExcelToJson /\ UNCHANGED <<nameVars, idVars, demoVars>>
    \/ MainConvertExcelToJsonUpdated /\ UNCHANGED <<nameVars, idVars, demoVars>>
    \/ CreateBidsStructure /\ UNCHANGED <<nameVars, idVars, taskVars, demoVars>>
    \/ CreateBidsStructureAndCopyData /\ UNCHANGED <<nameVars, idVars, taskVars, demoVars>>
    \/ CleanupUnusedJsonFiles /\ UNCHANGED <<nameVars, idVars, taskVars, demoVars>>
    \/ CleanupUnusedTaskJson /\ UNCHANGED <<nameVars, idVars, taskVars, demoVars>>
    \/ ValidateBids /\ UNCHANGED <<nameVars, idVars, taskVars, demoVars>>
SpecScenario == ScenarioInit /\ [][RunNext]_vars

\* a run of main over one or two task spreadsheets and one or two session
\* files; the calls on a BIDSConverter for one task spreadsheet and one
\* session file
RunInit ==
    /\ item_name = Str(<<>>) /\ normalized = Unset
    /\ id_value = None /\ participant_id = Unset /\ legacy_id = Unset
    /\ df_main = <<>> /\ df_meta = <<<<>>, <<>>>> /\ anonymize = FALSE
    /\ main_json = Unset /\ sidecar = Unset /\ legacy_sidecar = Unset
    /\ variant \in {"modular", "legacy"}
    /\ task_name = <<>>
    /\ session_files \in SeqsOfLen(RunTables, 1) \cup SeqsOfLen(RunTables, 2)
    /\ task_files \in SeqsOfLen(RunTaskFiles, 1) \cup SeqsOfLen(RunTaskFiles, 2)
    /\ variant = "modular" => Len(session_files) = 1 /\ Len(task_files) = 1
    /\ fs \in RunFolders
    /\ removed = {} /\ raised = {}
    /\ df_demo = Table(<<>>, <<>>) /\ df_variables = <<>>
    /\ df_description = Table(<<>>, <<>>)
    /\ pc = [phase |-> "parse", file |-> 1, task |-> 1, runs |-> 0]

SpecRun == RunInit /\ [][RunNext]_vars

\* the metadata sheets of up to MaxMetaRows rows each, with no item or one
MetaInit ==
    /\ item_name = Str(<<>>) /\ normalized = Unset
    /\ id_value = None /\ participant_id = Unset /\ legacy_id = Unset
    /\ df_main \in {<<>>, <<ItemRow(Str(<<"a", "-", "b">>), Str(T_q1), NaN, <<NaN>>, <<NaN>>)>>}
    /\ df_meta \in MetaSheets \X MetaSheets
    /\ anonymize = FALSE
    /\ main_json = Unset /\ sidecar = Unset /\ legacy_sidecar = Unset
    /\ variant = "modular" /\ task_name = <<>> /\ session_files = <<>> /\ task_files = <<>>
    /\ fs = <<>> /\ removed = {} /\ raised = {}
    /\ df_demo = Table(<<>>, <<>>) /\ df_variables = <<>>
    /\ df_description = Table(<<>>, <<>>)
    /\ pc = [phase |-> "idle", file |-> 1, task |-> 1, runs |-> 0]

SpecMeta == MetaInit /\ [][TaskNext]_vars

\* a demographics sheet and a variable dictionary, handed to either builder
DemoInit ==
    /\ item_name = Str(<<>>) /\ normalized = Unset
    /\ id_value = None /\ participant_id = Unset /\ legacy_id = Unset
    /\ df_main = <<>> /\ df_meta = <<<<>>, <<>>>> /\ anonymize = FALSE
    /\ main_json = Unset /\ sidecar = Unset /\ legacy_sidecar = Unset
    /\ variant \in {"modular", "legacy"}
    /\ task_name = <<>> /\ session_files = <<>> /\ task_files = <<>>
    /\ fs = <<>> /\ removed = {} /\ raised = {}
    /\ df_demo \in DemoTables /\ df_variables \in VariableDictionaries
    /\ df_description = Table(<<T_Key, T_Value>>, <<>>)
    /\ pc = [phase |-> "participants", file |-> 1, task |-> 1, runs |-> 0]

DemoNext ==
    \/ ConvertDemographicsToParticipants /\ UNCHANGED <<nameVars, idVars, taskVars>>
    \/ LegacyConvertDemographicsToParticipants /\ UNCHANGED <<nameVars, idVars, taskVars>>
SpecDemo == DemoInit /\ [][DemoNext]_vars

\* sheet 2 of the variables file, handed to the BIDSConverter with one
\* demographics sheet and one dictionary
DescriptionInit ==
    /\ item_name = Str(<<>>) /\ normalized = Unset
    /\ id_value = None /\ participant_id = Unset /\ legacy_id = Unset
    /\ df_main = <<>> /\ df_meta = <<<<>>, <<>>>> /\ anonymize = FALSE
    /\ main_json = Unset /\ sidecar = Unset /\ legacy_sidecar = Unset
    /\ variant = "modular"
    /\ task_name = <<>> /\ session_files = <<>> /\ task_files = <<>>
    /\ fs = <<>> /\ removed = {} /\ raised = {}
    /\ df_demo = read_excel(<<Upper(T_id), T_age>>, <<<<Str(T_sub \o T_01), Num(30)>>>>)
    /\ df_variables = <<VariableRow(T_id, T_string, Str(T_q1)),
                        VariableRow(T_age, T_integer, Str(T_q2))>>
    /\ df_description \in DescriptionSheets
    /\ pc = [phase |-> "participants", file |-> 1, task |-> 1, runs |-> 0]

DescriptionNext ==
    ConvertDemographicsToParticipants /\ UNCHANGED <<nameVars, idVars, taskVars>>
SpecDescription == DescriptionInit /\ [][DescriptionNext]_vars

\* a run of main of behave.py or of main.py over one or two task
\* spreadsheets and one or two session files
MainInit ==
    /\ item_name = Str(<<>>) /\ normalized = Unset
    /\ id_value = None /\ participant_id = Unset /\ legacy_id = Unset
    /\ df_main = <<>> /\ df_meta = <<<<>>, <<>>>> /\ anonymize = FALSE
    /\ main_json = Unset /\ sidecar = Unset /\ legacy_sidecar = Unset
    /\ variant \in {"legacy", "main"}
    /\ task_name = <<>>
    /\ session_files \in SeqsOfLen(RunTables, 1) \cup SeqsOfLen(RunTables, 2)
    /\ task_files \in SeqsOfLen(RunTaskFiles, 1) \cup SeqsOfLen(RunTaskFiles, 2)
    /\ fs \in RunFolders
    /\ removed = {} /\ raised = {}
    /\ df_demo = Table(<<>>, <<>>) /\ df_variables = <<>>
    /\ df_description = Table(<<>>, <<>>)
    /\ pc = [phase |-> "parse", file |-> 1, task |-> 1, runs |-> 0]

MainNext ==
    \/ MainConvertExcelToJsonUpdated /\ UNCHANGED <<nameVars, idVars, demoVars>>
    \/ CreateBidsStructureAndCopyData /\ UNCHANGED <<nameVars, idVars, taskVars, demoVars>>
    \/ CleanupUnusedTaskJson /\ UNCHANGED <<nameVars, idVars, taskVars, demoVars>>
    \/ ValidateBids /\ UNCHANGED <<nameVars, idVars, taskVars, demoVars>>
    \/ MainImportConvertExcelToJson /\ UNCHANGED <<nameVars, idVars, demoVars>>
    \/ ReadSessionData /\ UNCHANGED <<nameVars, idVars, taskVars, demoVars>>
    \/ MainCleanupUnusedTaskJson /\ UNCHANGED <<nameVars, idVars, taskVars, demoVars>>
    \/ MainValidateBids /\ UNCHANGED <<nameVars, idVars, taskVars, demoVars>>
SpecMain == MainInit /\ [][MainNext]_vars

\* one session file whose rows are numbered, and one task, handed to the
\* BIDSConverter or to behave.py, into an empty tree
RowsInit ==
    /\ item_name = Str(<<>>) /\ normalized = Unset
    /\ id_value = None /\ participant_id = Unset /\ legacy_id = Unset
    /\ \E task \in Tasks : task_name = task.name /\ df_main = task.rows
    /\ df_meta = <<<<>>, <<>>>> /\ anonymize = FALSE
    /\ main_json = Unset /\ sidecar = Unset /\ legacy_sidecar = Unset
    /\ variant \in {"modular", "legacy"}
    /\ \E table \in NumberedTables : session_files = <<table>>
    /\ task_files = <<>>
    /\ fs = <<>> /\ removed = {} /\ raised = {}
    /\ df_demo = Table(<<>>, <<>>) /\ df_variables = <<>>
    /\ df_description = Table(<<>>, <<>>)
    /\ pc = [phase |-> "extract", file |-> 1, task |-> 1, runs |-> 0]

RowsNext ==
    \/ CreateBidsStructure /\ UNCHANGED <<nameVars, idVars, taskVars, demoVars>>
    \/ CreateBidsStructureAndCopyData /\ UNCHANGED <<nameVars, idVars, taskVars, demoVars>>
SpecRows == RowsInit /\ [][RowsNext]_vars

====
